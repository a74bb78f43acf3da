\* Bytes of 2 bits, integers and table ids of 2 bytes; the length of a name has
\* one byte of 4, so that all names fit.
CONSTANTS
  ByteSpace = 4
  ByteBits = 2
  IntBytes = 2
  LenBytes = 1
  IdBytes = 2
  NameBytes = 1
  CountBytes = 2
  TextBytes = {0, 1, 2}
  MaxColumns = 3
  NameLengths = {1, 3}
  Names <- MCNames
  Ids <- MCIds
  Values <- MCValues
  KeyValues <- MCKeyValues
  MaxKeyText = 2
SPECIFICATION CodecSpec
INVARIANTS RowsReadBack CatalogReadsBack TruncationIsRefused KeysKeepOrder PrefixesSeparateTables
CHECK_DEADLOCK FALSE
