------------------------------ MODULE RowCodec ------------------------------
(***************************************************************************)
(* crates/row: values, rows and keys as bytes.  A decoder is given the     *)
(* type it should find; it returns what it read and the bytes left over,   *)
(* or that it failed.                                                      *)
(***************************************************************************)
EXTENDS TypedValues, Bytes

CONSTANTS
  IntBytes,    \* bytes of an INTEGER: 8
  LenBytes,    \* bytes of the length of a text: 4
  IdBytes,     \* bytes of a table id: 4
  ByteBits     \* bits of a byte: 8

ASSUME RowCodecAssumption ==
  /\ IntBytes \in Nat \ {0} /\ LenBytes \in Nat \ {0} /\ IdBytes \in Nat \ {0}
  /\ ByteBits \in Nat /\ ByteSpace = Power(2, ByteBits)

IntSpace == Power(ByteSpace, IntBytes)
Half     == IntSpace \div 2
Integer  == -Half .. Half - 1

\* Two's complement, both ways.
Unsigned(n) == n % IntSpace
Signed(n)   == IF n < Half THEN n ELSE n - IntSpace

NullValue == Val("null", <<>>)

Encoded(bytes) == [ok |-> TRUE, bytes |-> bytes]

-----------------------------------------------------------------------------
(* value.rs                                                                *)

\* encode_value.
EncodeValue(v, ty) ==
  IF v.t # ty THEN Broken
  ELSE Encoded(CASE ty = "integer" -> BigEndian(Unsigned(v.x), IntBytes)
                 [] ty = "boolean" -> <<IF v.x THEN 1 ELSE 0>>
                 [] OTHER          -> Prefixed(v.x, LenBytes))

\* A text or a byte string.
DecodeString(data, ty) ==
  LET r == TakePrefixed(data, LenBytes)
  IN  IF r.ok /\ (ty = "text" => IsText(r.v)) THEN Decoded(Val(ty, r.v), r.rest) ELSE Broken

\* decode_value.
DecodeValue(data, ty) ==
  CASE ty = "integer" ->
         IF Len(data) < IntBytes THEN Broken
         ELSE Decoded(Val(ty, Signed(FromBigEndian(FirstBytes(data, IntBytes)))), Beyond(data, IntBytes))
    [] ty = "boolean" ->
         IF data = <<>> THEN Broken ELSE Decoded(Val(ty, data[1] # 0), Beyond(data, 1))
    [] OTHER          -> DecodeString(data, ty)

-----------------------------------------------------------------------------
(* row.rs; a schema is a sequence of columns.                              *)

BitmapLen(n) == (n + ByteBits - 1) \div ByteBits

\* The bitmap of the columns that are NULL, and its bits.
Weight(bits) ==
  LET upTo[b \in 0 .. ByteBits] ==
        IF b = 0 THEN 0 ELSE upTo[b - 1] + (IF b - 1 \in bits THEN Power(2, b - 1) ELSE 0)
  IN  upTo[ByteBits]

Bitmap(nulls, n) ==
  [i \in 1 .. BitmapLen(n) |-> Weight({b \in 0 .. ByteBits - 1 : (i - 1) * ByteBits + b + 1 \in nulls})]

\* Mutant of IsNullAt: every bit is looked for in the first byte.
IsNullAtFirstByte(bitmap, i) == (bitmap[1] \div Power(2, (i - 1) % ByteBits)) % 2 = 1

IsNullAt(bitmap, i) ==
  (bitmap[(i - 1) \div ByteBits + 1] \div Power(2, (i - 1) % ByteBits)) % 2 = 1

\* encode_row.
EncodeRow(columns, row) ==
  LET nulls == {i \in DOMAIN row : row[i].t = "null"}
      parts == [i \in DOMAIN row |-> IF i \in nulls THEN Encoded(<<>>)
                                     ELSE EncodeValue(row[i], columns[i].ty)]
  IN  IF \/ Len(row) # Len(columns)
         \/ \E i \in nulls : ~columns[i].nullable
         \/ \E i \in DOMAIN parts : ~parts[i].ok
      THEN Broken
      ELSE Encoded(Bitmap(nulls, Len(columns))
                   \o FlattenSeq([i \in DOMAIN parts |-> parts[i].bytes]))

\* decode_row.
ReadColumn(done, column, null) ==
  Further(done, IF null THEN Decoded(NullValue, done.rest) ELSE DecodeValue(done.rest, column.ty))

DecodeRow(columns, data) ==
  LET blen   == BitmapLen(Len(columns))
      bitmap == FirstBytes(data, blen)
      upTo[i \in 0 .. Len(columns)] ==
        IF i = 0 THEN Decoded(<<>>, Beyond(data, blen))
        ELSE ReadColumn(upTo[i - 1], columns[i], IsNullAt(bitmap, i))
  IN  IF Len(data) < blen THEN Broken ELSE upTo[Len(columns)]

-----------------------------------------------------------------------------
(* key.rs                                                                  *)

CounterKeyBytes     == <<0, 0>>
IndexKeyBytes       == <<0, 1>>
TableKeyBytes(name) == <<0, 2>> \o name

\* Mutant of EncodeKey: the sign bit is left alone.
EncodeKeyUnflipped(v, ty) ==
  IF v.t # ty THEN Broken
  ELSE Encoded(CASE ty = "integer" -> BigEndian(Unsigned(v.x), IntBytes)
                 [] ty = "boolean" -> <<IF v.x THEN 1 ELSE 0>>
                 [] OTHER          -> v.x)

\* encode_key_component.  Flipping the highest bit adds Half.
EncodeKey(v, ty) ==
  IF v.t # ty THEN Broken
  ELSE Encoded(CASE ty = "integer" -> BigEndian((Unsigned(v.x) + Half) % IntSpace, IntBytes)
                 [] ty = "boolean" -> <<IF v.x THEN 1 ELSE 0>>
                 [] OTHER          -> v.x)

\* decode_key_component.
DecodeKey(bytes, ty) ==
  CASE ty = "integer" ->
         IF Len(bytes) # IntBytes THEN Broken
         ELSE Decoded(Val(ty, Signed((FromBigEndian(bytes) + Half) % IntSpace)), <<>>)
    [] ty = "boolean" -> IF Len(bytes) # 1 THEN Broken ELSE Decoded(Val(ty, bytes[1] # 0), <<>>)
    [] ty = "text"    -> IF IsText(bytes) THEN Decoded(Val(ty, bytes), <<>>) ELSE Broken
    [] ty = "bytes"   -> Decoded(Val(ty, bytes), <<>>)

\* Mutant of RowKeyPrefixBytes: only the lowest byte of the id.
RowKeyPrefixShort(id) == <<1>> \o BigEndian(id % ByteSpace, IdBytes)

\* row_key_prefix, row_key and split_row_key.
RowKeyPrefixBytes(id) == <<1>> \o BigEndian(id, IdBytes)

RowKeyBytes(id, v, ty) ==
  LET key == EncodeKey(v, ty)
  IN  IF key.ok THEN Encoded(RowKeyPrefixBytes(id) \o key.bytes) ELSE Broken

SplitRowKey(key) ==
  IF Len(key) < 1 + IdBytes \/ key[1] # 1 THEN Broken
  ELSE Decoded(FromBigEndian(SubSeq(key, 2, 1 + IdBytes)), Beyond(key, 1 + IdBytes))
=============================================================================
