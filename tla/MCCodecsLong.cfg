\* Bytes of 2 bits, integers and table ids of 2 bytes; the length of a name has
\* one byte of 4 values: 3 bytes fit, 4 do not.
CONSTANTS
  ByteSpace = 4
  ByteBits = 2
  IntBytes = 2
  LenBytes = 1
  IdBytes = 2
  NameBytes = 1
  CountBytes = 2
  TextBytes = {0, 1, 2}
  MaxColumns = 3
  NameLengths = {3, 4}
  Names <- MCNames
  Ids <- MCIds
  Values <- MCValues
  KeyValues <- MCKeyValues
  MaxKeyText = 2
SPECIFICATION CodecSpec
INVARIANT IndexReadsBack
CHECK_DEADLOCK FALSE
