------------------------------ MODULE MCCodecs ------------------------------
(* Codecs for TLC.                                                         *)
EXTENDS Codecs

CONSTANTS
  NameLengths,    \* bytes of the names
  MaxKeyText      \* bound: bytes of a text key

MCNames == {[j \in 1 .. n |-> (n + j) % Cardinality(TextBytes)] : n \in NameLengths}

\* Every digit and its neighbour, alone or together.
MCIds == {0, 1, ByteSpace, ByteSpace + 1}

\* Both ends of the integers, and texts up to the longest that the length field holds.
MCValues ==
  {Val("integer", n) : n \in {-Half, -1, 0, Half - 1}}
    \cup {Val("text", s) : s \in {<<>>, <<1, 0>>, <<2, 2, 2>>}}
    \cup {Val("bytes", s) : s \in {<<>>, <<3, 1>>}}
    \cup {Val("boolean", b) : b \in BOOLEAN}

MCKeyValues ==
  LET Strings(bytes) == UNION {[1 .. n -> bytes] : n \in 0 .. MaxKeyText}
  IN  {Val("integer", n) : n \in Integer} \cup {Val("boolean", b) : b \in BOOLEAN}
        \cup {Val("text", s) : s \in Strings(TextBytes)} \cup {Val("bytes", s) : s \in Strings(Byte)}
=============================================================================
