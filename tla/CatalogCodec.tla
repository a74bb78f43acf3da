---------------------------- MODULE CatalogCodec ----------------------------
(***************************************************************************)
(* crates/catalog/src/codec.rs: table entries and the index of table names *)
(* as bytes, and Schema::new, which checks what an entry says.             *)
(***************************************************************************)
EXTENDS Bytes

CONSTANTS
  NameBytes,    \* bytes of the length of a name, and of the counts of an entry: 2
  CountBytes    \* bytes of a table id, and of the length of the index: 4

ASSUME CatalogCodecAssumption ==
  NameBytes \in Nat \ {0} /\ CountBytes \in Nat \ {0}

Types == <<"integer", "text", "bytes", "boolean">>

ColumnDef(name, ty, nullable) == [name |-> name, ty |-> ty, nullable |-> nullable]
Schema(name, columns, pk) == [table_name |-> name, columns |-> columns, primary_key |-> pk]

\* Schema::new of row.rs.
ValidSchema(schema) ==
  LET cols == schema.columns
  IN  /\ cols # <<>>
      /\ schema.primary_key < Len(cols)
      /\ ~cols[schema.primary_key + 1].nullable
      /\ \A i, j \in DOMAIN cols : cols[i].name = cols[j].name => i = j

-----------------------------------------------------------------------------
\* type_tag, type_from_tag.
TypeTag(ty) == (CHOOSE i \in DOMAIN Types : Types[i] = ty) - 1
IsTag(tag)  == tag < Len(Types)

\* write_string.
WriteString(name) == Prefixed(name, NameBytes)

\* Mutant of ReadString: the length is trusted.
ReadStringTrusting(data) ==
  LET len == FromLittleEndian(FirstBytes(data, NameBytes))
      end == IF NameBytes + len < Len(data) THEN NameBytes + len ELSE Len(data)
  IN  IF Len(data) < NameBytes THEN Broken ELSE Decoded(SubSeq(data, NameBytes + 1, end), Beyond(data, end))

\* read_string.
ReadString(data) ==
  LET r == TakePrefixed(data, NameBytes)
  IN  IF r.ok /\ IsText(r.v) THEN r ELSE Broken

-----------------------------------------------------------------------------
(* Table entries.                                                          *)

EncodeColumn(col) ==
  WriteString(col.name) \o <<TypeTag(col.ty), IF col.nullable THEN 1 ELSE 0>>

\* encode_table_entry.
EncodeTableEntry(id, schema) ==
  LittleEndian(id, CountBytes) \o WriteString(schema.table_name)
    \o LittleEndian(Len(schema.columns), NameBytes) \o LittleEndian(schema.primary_key, NameBytes)
    \o FlattenSeq([i \in DOMAIN schema.columns |-> EncodeColumn(schema.columns[i])])

DecodeColumn(data) ==
  LET name == ReadString(data)
  IN  IF ~name.ok \/ Len(name.rest) < 2 \/ ~IsTag(name.rest[1]) THEN Broken
      ELSE Decoded(ColumnDef(name.v, Types[name.rest[1] + 1], name.rest[2] # 0), Beyond(name.rest, 2))

\* The loop of decode_table_entry.
DecodeColumns(ncols, data) ==
  LET upTo[i \in 0 .. ncols] ==
        IF i = 0 THEN Decoded(<<>>, data)
        ELSE Further(upTo[i - 1], DecodeColumn(upTo[i - 1].rest))
  IN  upTo[ncols]

\* decode_table_entry.
DecodeTableEntry(data) ==
  LET name    == ReadString(Beyond(data, CountBytes))
      counts  == FirstBytes(name.rest, 2 * NameBytes)
      ncols   == FromLittleEndian(FirstBytes(counts, NameBytes))
      pk      == FromLittleEndian(Beyond(counts, NameBytes))
      columns == DecodeColumns(ncols, Beyond(name.rest, 2 * NameBytes))
      schema  == Schema(name.v, columns.v, pk)
  IN  IF \/ Len(data) < CountBytes
         \/ ~name.ok
         \/ Len(name.rest) < 2 * NameBytes
         \/ ~columns.ok
         \/ ~ValidSchema(schema)
      THEN Broken
      ELSE Decoded([id |-> FromLittleEndian(FirstBytes(data, CountBytes)), schema |-> schema], <<>>)

-----------------------------------------------------------------------------
(* The index of table names.                                               *)

\* Mutant of EncodeTableIndex: the count is written as a name's length is.
EncodeTableIndexShort(names) ==
  LittleEndian(Len(names), NameBytes) \o FlattenSeq([i \in DOMAIN names |-> WriteString(names[i])])

\* encode_table_index.
EncodeTableIndex(names) ==
  LittleEndian(Len(names), CountBytes) \o FlattenSeq([i \in DOMAIN names |-> WriteString(names[i])])

\* decode_table_index.
DecodeTableIndex(data) ==
  LET count == FromLittleEndian(FirstBytes(data, CountBytes))
      upTo[i \in 0 .. count] ==
        IF i = 0 THEN Decoded(<<>>, Beyond(data, CountBytes))
        ELSE Further(upTo[i - 1], ReadString(upTo[i - 1].rest))
  IN  IF Len(data) < CountBytes THEN Broken ELSE upTo[count]
=============================================================================
