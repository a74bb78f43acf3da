------------------------------- MODULE Bytes --------------------------------
(***************************************************************************)
(* Numbers as bytes: the to_be_bytes and to_le_bytes of Rust and their     *)
(* inverses, for bytes and words of any size.  A number that does not fit  *)
(* loses its high digits, as `as u16` does.                                *)
(***************************************************************************)
EXTENDS Integers, SequencesExt

CONSTANTS ByteSpace,   \* number of bytes: 256, a power of two
          TextBytes    \* the bytes that may occur in a text: a text is valid UTF-8

Byte == 0 .. ByteSpace - 1

ASSUME ByteAssumption ==
  /\ ByteSpace \in Nat /\ ByteSpace > 2
  /\ TextBytes \subseteq Byte

IsText(bytes) == \A i \in DOMAIN bytes : bytes[i] \in TextBytes

\* base ^ n, as a function: the provers know nothing of ^.
Power(base, n) ==
  LET p[i \in 0 .. n] == IF i = 0 THEN 1 ELSE base * p[i - 1] IN p[n]

\* A number without its lowest digit, its two lowest, and so on.
Shifted(n, width) ==
  LET by[i \in 0 .. width] == IF i = 0 THEN n ELSE by[i - 1] \div ByteSpace IN by

BigEndian(n, width)    == [i \in 1 .. width |-> Shifted(n, width)[width - i] % ByteSpace]
LittleEndian(n, width) == Reverse(BigEndian(n, width))

FromBigEndian(bytes) ==
  LET upTo[i \in 0 .. Len(bytes)] ==
        IF i = 0 THEN 0 ELSE upTo[i - 1] * ByteSpace + bytes[i]
  IN  upTo[Len(bytes)]

FromLittleEndian(bytes) == FromBigEndian(Reverse(bytes))

\* The first n bytes (all of them when they are fewer), and those after them.
FirstBytes(bytes, n) == SubSeq(bytes, 1, IF n < Len(bytes) THEN n ELSE Len(bytes))
Beyond(bytes, n) == SubSeq(bytes, n + 1, Len(bytes))

\* A string behind its length, which loses its high digits where it does not fit.
Prefixed(bytes, width) == LittleEndian(Len(bytes), width) \o bytes

\* The order of byte strings.
BytesLess(s, t) ==
  \E n \in 0 .. Len(s) :
    /\ n <= Len(t) /\ \A i \in 1 .. n : s[i] = t[i]
    /\ \/ n = Len(s) /\ n < Len(t)
       \/ n < Len(s) /\ n < Len(t) /\ s[n + 1] < t[n + 1]

\* What a decoder returns, and the bytes it has left; or that it failed.
Decoded(v, rest) == [ok |-> TRUE, v |-> v, rest |-> rest]
Broken           == [ok |-> FALSE]

\* The string at the front of the data.
TakePrefixed(data, width) ==
  LET len == FromLittleEndian(FirstBytes(data, width))
  IN  IF Len(data) < width \/ Len(data) < width + len THEN Broken
      ELSE Decoded(SubSeq(data, width + 1, width + len), Beyond(data, width + len))

\* One turn of a decoder's loop: what it has read, and r besides.
Further(done, r) ==
  IF ~done.ok THEN done ELSE IF r.ok THEN Decoded(Append(done.v, r.v), r.rest) ELSE Broken
=============================================================================
