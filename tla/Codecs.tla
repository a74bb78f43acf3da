------------------------------- MODULE Codecs -------------------------------
(***************************************************************************)
(* What the codecs promise each other.  A table is given one column after  *)
(* the other; its entry, its rows and its keys are written and read.       *)
(***************************************************************************)
EXTENDS RowCodec, CatalogCodec

CONSTANTS
  Names,        \* names of tables and columns
  Ids,          \* table ids
  Values,       \* values that rows hold
  KeyValues,    \* primary keys
  MaxColumns    \* bound: columns of a table

VARIABLES columns

\* What a value of each type may be; texts and byte strings of any length.
IsValue(v) ==
  \/ v.t = "integer" /\ v.x \in Integer
  \/ v.t = "boolean" /\ v.x \in BOOLEAN
  \/ v.t = "text"    /\ v.x \in Seq(TextBytes)
  \/ v.t = "bytes"   /\ v.x \in Seq(Byte)

\* A length field of so many bytes holds the length.
Fits(n, width) == n < Power(ByteSpace, width)

\* Every value is what Val makes it, and none that rows hold is too long for
\* its length field, which none of 4 GiB would fit.  Nothing is assumed of the
\* length of names.
ASSUME CodecsAssumption ==
  /\ Names \subseteq Seq(TextBytes)
  /\ MaxColumns \in Nat
  /\ \A id \in Ids : id \in Nat /\ Fits(id, IdBytes) /\ Fits(id, CountBytes)
  /\ \A v \in Values \cup KeyValues : v = Val(v.t, v.x) /\ IsValue(v)
  /\ \A v \in Values : v.t \in {"text", "bytes"} => Fits(Len(v.x), LenBytes)

\* A new column, or one with the name of another, which Schema::new refuses.
AddColumn ==
  /\ Len(columns) < MaxColumns
  /\ \E name \in Names, t \in DOMAIN Types, nullable \in BOOLEAN :
       columns' = Append(columns, ColumnDef(name, Types[t], nullable))

CodecSpec == columns = <<>> /\ [][AddColumn]_columns

-----------------------------------------------------------------------------
(* Entries and the index.  The columns' names serve as table names, too.   *)

Index   == [i \in DOMAIN columns |-> columns[i].name]
Schemas == {Schema(name, columns, pk) : name \in Names, pk \in 0 .. MaxColumns}

\* Whatever names were written, the index reads them back: the assertion of codec.rs
\* table_index_round_trips_including_empty, for any names that create_table accepts.
IndexReadsBack == DecodeTableIndex(EncodeTableIndex(Index)) = Decoded(Index, <<>>)

\* What IndexReadsBack needs: lengths that fit.
CatalogFits ==
  /\ \A name \in Names : Fits(Len(name), NameBytes)
  /\ Fits(MaxColumns, NameBytes) /\ Fits(MaxColumns, CountBytes)

\* An entry and an index are read back as they were written, if their lengths fit
\* (codec.rs encode_table_entry and decode_table_entry, encode_table_index and decode_table_index),
\* the entry of a schema that Schema::new refuses excepted: that one is refused.
CatalogReadsBack ==
  CatalogFits =>
    /\ \A id \in Ids, schema \in Schemas :
         DecodeTableEntry(EncodeTableEntry(id, schema)) =
           IF ValidSchema(schema) THEN Decoded([id |-> id, schema |-> schema], <<>>) ELSE Broken
    /\ IndexReadsBack

-----------------------------------------------------------------------------
(* Rows.                                                                   *)

\* Only values that engine's check_type lets through: NULL or the column's own type.
Rows ==
  {row \in [DOMAIN columns -> Values \cup {NullValue}] :
     \A i \in DOMAIN row : row[i].t \in {columns[i].ty, "null"}}

\* A row that its table admits is read back as it was written, NULLs included; one that holds NULL
\* where the table does not admit it is not written (row.rs encode_row and decode_row).
RowsReadBack ==
  \A row \in Rows :
    LET stored   == EncodeRow(columns, row)
        admitted == \A i \in DOMAIN row : row[i].t = "null" => columns[i].nullable
    IN  IF admitted
        THEN stored.ok /\ DecodeRow(columns, stored.bytes) = Decoded(row, <<>>)
        ELSE ~stored.ok

-----------------------------------------------------------------------------
(* Keys, of tables with the first column as primary key and no other.      *)

KeysOf(ty) == {v \in KeyValues : v.t = ty}

\* row_key of a value of the right type.
Key(id, v) == RowKeyBytes(id, v, v.t).bytes

\* The Ord of the values of one type.
Less(a, b) ==
  CASE a.t = "integer" -> a.x < b.x
    [] a.t = "boolean" -> ~a.x /\ b.x
    [] OTHER           -> BytesLess(a.x, b.x)

\* A row key names its table and its primary key again, as a reported conflict does
\* (key.rs split_row_key and decode_key_component, used by txn/src/lib.rs conflict_error); and two
\* primary keys of a table compare as their keys do (key.rs, the heading's promise).
KeysKeepOrder ==
  Len(columns) = 1 => \A id \in Ids, v \in KeysOf(columns[1].ty) :
    LET split == SplitRowKey(Key(id, v))
    IN  /\ split = Decoded(id, split.rest)
        /\ DecodeKey(split.rest, v.t) = Decoded(v, <<>>)
        /\ \A w \in KeysOf(columns[1].ty) : Less(v, w) <=> BytesLess(Key(id, v), Key(id, w))

\* A scan for the rows of a table meets the key.
Meets(id, key) == FirstBytes(key, Len(RowKeyPrefixBytes(id))) = RowKeyPrefixBytes(id)

\* A scan of one table never meets a row of another, nor an entry of the catalog, and two rows of
\* one key are one row (key.rs row_key_prefix and row_key, the catalog's keys).
PrefixesSeparateTables ==
  /\ Len(columns) = 1 => \A i, j \in Ids, v \in KeysOf(columns[1].ty) :
       /\ Meets(i, Key(j, v)) <=> i = j
       /\ \A w \in KeysOf(columns[1].ty) : Key(i, v) = Key(j, w) => i = j /\ v = w
  /\ \A id \in Ids, name \in Names :
       \A key \in {CounterKeyBytes, IndexKeyBytes, TableKeyBytes(name)} : ~Meets(id, key)

-----------------------------------------------------------------------------
(* All of them.                                                            *)

Beginnings(bytes) == {FirstBytes(bytes, n) : n \in 0 .. Len(bytes) - 1}

\* No row, entry or index loses its end without its decoder telling (value.rs decode_value and
\* decode_length_prefixed, row.rs decode_row, codec.rs read_string and the checks of both decoders).
TruncationIsRefused ==
  /\ \A row \in Rows :
       LET stored == EncodeRow(columns, row)
       IN  stored.ok => \A part \in Beginnings(stored.bytes) : DecodeRow(columns, part) = Broken
  /\ CatalogFits =>
       /\ \A id \in Ids, schema \in Schemas :
            \A part \in Beginnings(EncodeTableEntry(id, schema)) : DecodeTableEntry(part) = Broken
       /\ \A part \in Beginnings(EncodeTableIndex(Index)) : DecodeTableIndex(part) = Broken
=============================================================================
