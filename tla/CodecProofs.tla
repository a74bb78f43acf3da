---------------------------- MODULE CodecProofs -----------------------------
(***************************************************************************)
(* The codecs, proved for bytes, bitmaps, integers and length fields of    *)
(* every width, for names, texts and byte strings of every length, and for *)
(* rows and schemas of every number of columns: what is written is read    *)
(* back, what has lost its end is refused, keys sort as their values do,   *)
(* and the keys of one table are apart from all others.                    *)
(*                                                                         *)
(* A word is a number because every digit is a remainder and the quotient  *)
(* is what the other digits say.  Every decoder is a reader: what it reads *)
(* at the front of the data is the same when more bytes follow (Longer).   *)
(* So what reads back alone reads back in front of others, and decoders    *)
(* follow one another; and a decoder that reads all of a string reads no   *)
(* beginning of it (MoreFails).                                            *)
(***************************************************************************)
EXTENDS Codecs, Induction, SequenceTheorems

-----------------------------------------------------------------------------
(* Powers, digits and numbers.                                             *)

\* The first powers of a number.
ArePowers(p, base, n) ==
  p \in [0 .. n -> Nat \ {0}] /\ p[0] = 1 /\ \A i \in 1 .. n : p[i] = base * p[i - 1]

\* Power is the last of them.
LEMMA PowersAre ==
  ASSUME NEW base \in Nat \ {0}, NEW n \in Nat
  PROVE  \E p : ArePowers(p, base, n) /\ Power(base, n) = p[n]
<1> DEFINE S == [i \in 0 .. n |-> Nat \ {0}]
           Is(f) == f = [i \in 0 .. n |-> IF i = 0 THEN 1 ELSE base * f[i - 1]]
           p == CHOOSE f : Is(f)
           g == [q \in (Nat \ {0}) \X (1 .. n) |-> base * q[1]]
<1>1. Power(base, n) = p[n]
  BY DEF Power
<1>2. \A i \in 1 .. n : \A x \in S[i - 1] : g[<<x, i>>] = base * x /\ g[<<x, i>>] \in S[i]
  OBVIOUS
<1>3. 1 \in S[0]
  OBVIOUS
<1> HIDE DEF g, S
<1>4. PICK f : IsTurns(f, g, 1, n) /\ \A i \in 0 .. n : f[i] \in S[i]
  BY <1>2, <1>3, Turns
<1>5. \A i \in 0 .. n : i # 0 => i \in 1 .. n /\ i - 1 \in 0 .. n
  OBVIOUS
<1>6. Is(f)
  <2>1. \A i \in 0 .. n : f[i] = IF i = 0 THEN 1 ELSE base * f[i - 1]
    BY <1>2, <1>4, <1>5 DEF IsTurns
  <2>2. f = [i \in 0 .. n |-> f[i]]
    BY <1>4 DEF IsTurns
  <2> QED
    BY <2>1, <2>2
<1>7. Is(p)
  BY <1>6
<1> HIDE DEF p
<1>8. \A i \in 0 .. n : p[i] = IF i = 0 THEN 1 ELSE base * p[i - 1]
  BY <1>7
<1> DEFINE H == {i \in 0 .. n : p[i] \in Nat \ {0}}
<1>9. 0 \in H
  BY <1>8
<1>10. ASSUME NEW i \in 1 .. n, i - 1 \in H PROVE i \in H
  BY <1>8, <1>10
<1> HIDE DEF H
<1>11. \A i \in 0 .. n : i \in H
  BY <1>9, <1>10, IntervalInduction
<1>12. p \in [0 .. n -> Nat \ {0}]
  BY <1>7, <1>11 DEF H
<1>13. ArePowers(p, base, n)
  BY <1>8, <1>12 DEF ArePowers
<1> QED
  BY <1>1, <1>13

\* The powers of a number.
LEMMA PowerIs ==
  ASSUME NEW base \in Nat \ {0}
  PROVE  /\ Power(base, 0) = 1
         /\ \A n \in Nat : /\ Power(base, n) \in Nat \ {0}
                           /\ Power(base, n + 1) = base * Power(base, n)
<1>1. Power(base, 0) = 1
  BY PowersAre DEF ArePowers
<1>2. ASSUME NEW n \in Nat
      PROVE  Power(base, n) \in Nat \ {0} /\ Power(base, n + 1) = base * Power(base, n)
  <2> DEFINE m == n + 1
  <2>0. m \in Nat /\ m \in 1 .. m /\ m - 1 = n /\ n \in 0 .. n /\ n \in 0 .. m
        /\ \A i \in 1 .. n : i \in 1 .. m
    OBVIOUS
  <2> HIDE DEF m
  <2>1. PICK p : ArePowers(p, base, n) /\ Power(base, n) = p[n]
    BY PowersAre
  <2>2. PICK q : ArePowers(q, base, m) /\ Power(base, m) = q[m]
    BY <2>0, PowersAre
  <2> DEFINE H == {i \in 0 .. n : q[i] = p[i]}
  <2>3. 0 \in H
    BY <2>1, <2>2 DEF ArePowers
  <2>4. ASSUME NEW i \in 1 .. n, i - 1 \in H PROVE i \in H
    <3>1. q[i] = base * q[i - 1] /\ p[i] = base * p[i - 1] /\ i \in 0 .. n
      BY <2>0, <2>1, <2>2 DEF ArePowers
    <3> QED
      BY <2>4, <3>1
  <2> HIDE DEF H
  <2>5. \A i \in 0 .. n : i \in H
    BY <2>3, <2>4, IntervalInduction
  <2>6. q[n] = p[n]
    BY <2>0, <2>5 DEF H
  <2>7. q[m] = base * q[m - 1] /\ p[n] \in Nat \ {0}
    BY <2>0, <2>1, <2>2 DEF ArePowers
  <2> QED
    BY <2>0, <2>1, <2>2, <2>6, <2>7 DEF m
<1> QED
  BY <1>1, <1>2

\* A byte has at least three values.
LEMMA ByteSpaceIs == ByteSpace \in Nat \ {0} /\ ByteSpace > 2 /\ 0 \in Byte /\ 1 \in Byte /\ 2 \in Byte
  BY ByteAssumption DEF Byte

\* A number is its lowest digit and the rest.
LEMMA DigitIs ==
  ASSUME NEW n \in Nat
  PROVE  /\ n \div ByteSpace \in Nat /\ n % ByteSpace \in Byte
         /\ n = (n \div ByteSpace) * ByteSpace + (n % ByteSpace)
<1>1. ByteSpace \in Nat /\ ByteSpace > 0
  BY ByteSpaceIs
<1> QED
  BY <1>1 DEF Byte

\* A number, and what is left of it without more and more of its digits.
AreShifts(s, n, width) ==
  /\ s \in [0 .. width -> Nat]
  /\ s[0] = n /\ \A i \in 1 .. width : s[i] = s[i - 1] \div ByteSpace

\* Shifted is that.
LEMMA ShiftsAre ==
  ASSUME NEW n \in Nat, NEW width \in Nat
  PROVE  AreShifts(Shifted(n, width), n, width)
<1> DEFINE m == width
           Step(x, i) == x \div ByteSpace
           IsUpTo(f, k) == f = [i \in 0 .. k |-> IF i = 0 THEN n ELSE Step(f[i - 1], i)]
           u == CHOOSE f : IsUpTo(f, m)
<1>0. m \in Nat
  OBVIOUS
<1>1. Shifted(n, width) = u
  BY DEF Shifted
<1> DEFINE Has(k) == \E f : IsUpTo(f, k)
           H == {k \in 0 .. m : Has(k)}
<1> HIDE DEF u, m, Step, IsUpTo, Has
<1>2. 0 \in H
  <2>1. IsUpTo([i \in 0 .. 0 |-> n], 0)
    BY DEF IsUpTo
  <2>2. Has(0)
    BY <2>1 DEF Has
  <2> QED
    BY <1>0, <2>2
<1>3. ASSUME NEW k \in 1 .. m, k - 1 \in H PROVE k \in H
  <2>1. PICK f : IsUpTo(f, k - 1)
    BY <1>3 DEF Has
  <2> DEFINE g == [i \in 0 .. k |-> IF i = k THEN Step(f[k - 1], k) ELSE f[i]]
  <2>2. \A i \in 0 .. k : i # k => i \in 0 .. k - 1
    BY <1>0
  <2>3. \A i \in 0 .. k : i # 0 => i - 1 \in 0 .. k /\ i - 1 # k
    BY <1>0
  <2>4. \A i \in 0 .. k - 1 : f[i] = IF i = 0 THEN n ELSE Step(f[i - 1], i)
    BY <2>1 DEF IsUpTo
  <2>5. \A i \in 0 .. k : g[i] = IF i = 0 THEN n ELSE Step(g[i - 1], i)
    BY <1>0, <2>2, <2>3, <2>4
  <2>6. g = [i \in 0 .. k |-> g[i]]
    OBVIOUS
  <2> HIDE DEF g
  <2>7. IsUpTo(g, k)
    BY <2>5, <2>6 DEF IsUpTo
  <2>8. Has(k)
    BY <2>7 DEF Has
  <2>9. k \in 0 .. m
    BY <1>0
  <2> QED
    BY <2>8, <2>9
<1> HIDE DEF H
<1>4. \A k \in 0 .. m : k \in H
  BY <1>0, <1>2, <1>3, IntervalInduction
<1>5. m \in 0 .. m
  BY <1>0
<1>6. Has(m)
  BY <1>4, <1>5 DEF H
<1>7. IsUpTo(u, m)
  BY <1>6 DEF Has, u
<1>8. u = [i \in 0 .. m |-> u[i]]
  BY <1>7 DEF IsUpTo
<1>9. u[0] = n
  BY <1>0, <1>7 DEF IsUpTo
<1>10. \A i \in 1 .. m : u[i] = Step(u[i - 1], i)
  BY <1>0, <1>7 DEF IsUpTo
<1> DEFINE G == {i \in 0 .. m : u[i] \in Nat}
<1>11. 0 \in G
  BY <1>0, <1>9
<1>12. ASSUME NEW i \in 1 .. m, i - 1 \in G PROVE i \in G
  BY <1>0, <1>10, <1>12, DigitIs DEF Step
<1> HIDE DEF G
<1>13. \A i \in 0 .. m : i \in G
  BY <1>0, <1>11, <1>12, IntervalInduction
<1>14. u \in [0 .. m -> Nat]
  BY <1>8, <1>13 DEF G
<1>15. \A i \in 1 .. m : u[i] = u[i - 1] \div ByteSpace
  BY <1>10 DEF Step
<1> QED
  BY <1>1, <1>9, <1>14, <1>15 DEF AreShifts, m

\* The value of the first digits, of one more, and so on.
AreValues(v, bytes) ==
  /\ v \in [0 .. Len(bytes) -> Nat] /\ v[0] = 0
  /\ \A i \in 1 .. Len(bytes) : v[i] = v[i - 1] * ByteSpace + bytes[i]

\* FromBigEndian is the last of them.
LEMMA ValuesAre ==
  ASSUME NEW bytes \in Seq(Byte)
  PROVE  \E v : AreValues(v, bytes) /\ FromBigEndian(bytes) = v[Len(bytes)]
<1> DEFINE m == Len(bytes)
           Step(x, i) == x * ByteSpace + bytes[i]
           IsUpTo(f, k) == f = [i \in 0 .. k |-> IF i = 0 THEN 0 ELSE Step(f[i - 1], i)]
           u == CHOOSE f : IsUpTo(f, m)
<1>0. m \in Nat
  OBVIOUS
<1>1. FromBigEndian(bytes) = u[m]
  BY DEF FromBigEndian
<1> DEFINE Has(k) == \E f : IsUpTo(f, k)
           H == {k \in 0 .. m : Has(k)}
<1> HIDE DEF u, m, Step, IsUpTo, Has
<1>2. 0 \in H
  <2>1. IsUpTo([i \in 0 .. 0 |-> 0], 0)
    BY DEF IsUpTo
  <2>2. Has(0)
    BY <2>1 DEF Has
  <2> QED
    BY <1>0, <2>2
<1>3. ASSUME NEW k \in 1 .. m, k - 1 \in H PROVE k \in H
  <2>1. PICK f : IsUpTo(f, k - 1)
    BY <1>3 DEF Has
  <2> DEFINE g == [i \in 0 .. k |-> IF i = k THEN Step(f[k - 1], k) ELSE f[i]]
  <2>2. \A i \in 0 .. k : i # k => i \in 0 .. k - 1
    BY <1>0
  <2>3. \A i \in 0 .. k : i # 0 => i - 1 \in 0 .. k /\ i - 1 # k
    BY <1>0
  <2>4. \A i \in 0 .. k - 1 : f[i] = IF i = 0 THEN 0 ELSE Step(f[i - 1], i)
    BY <2>1 DEF IsUpTo
  <2>5. \A i \in 0 .. k : g[i] = IF i = 0 THEN 0 ELSE Step(g[i - 1], i)
    BY <1>0, <2>2, <2>3, <2>4
  <2>6. g = [i \in 0 .. k |-> g[i]]
    OBVIOUS
  <2> HIDE DEF g
  <2>7. IsUpTo(g, k)
    BY <2>5, <2>6 DEF IsUpTo
  <2>8. Has(k)
    BY <2>7 DEF Has
  <2>9. k \in 0 .. m
    BY <1>0
  <2> QED
    BY <2>8, <2>9
<1> HIDE DEF H
<1>4. \A k \in 0 .. m : k \in H
  BY <1>0, <1>2, <1>3, IntervalInduction
<1>5. m \in 0 .. m
  BY <1>0
<1>6. Has(m)
  BY <1>4, <1>5 DEF H
<1>7. IsUpTo(u, m)
  BY <1>6 DEF Has, u
<1>8. u = [i \in 0 .. m |-> u[i]]
  BY <1>7 DEF IsUpTo
<1>9. u[0] = 0
  BY <1>0, <1>7 DEF IsUpTo
<1>10. \A i \in 1 .. m : u[i] = Step(u[i - 1], i)
  BY <1>0, <1>7 DEF IsUpTo
<1> DEFINE G == {i \in 0 .. m : u[i] \in Nat}
<1>11. 0 \in G
  BY <1>0, <1>9
<1>12. ASSUME NEW i \in 1 .. m, i - 1 \in G PROVE i \in G
  <2>1. bytes[i] \in Byte /\ ByteSpace \in Nat /\ Byte = 0 .. ByteSpace - 1
    BY ByteSpaceIs DEF Byte, m
  <2>2. bytes[i] \in Nat
    BY <2>1
  <2>3. u[i - 1] \in Nat /\ u[i] = u[i - 1] * ByteSpace + bytes[i] /\ i \in 0 .. m
    BY <1>0, <1>10, <1>12 DEF Step
  <2>4. u[i] \in Nat
    <3> DEFINE a == u[i - 1]
               b == bytes[i]
               c == u[i]
    <3>1. a \in Nat /\ b \in Nat /\ c = a * ByteSpace + b
      BY <2>2, <2>3
    <3> HIDE DEF a, b, c
    <3>2. c \in Nat
      BY <2>1, <3>1
    <3> QED
      BY <3>2 DEF c
  <2> QED
    BY <2>3, <2>4
<1> HIDE DEF G
<1>13. \A i \in 0 .. m : i \in G
  BY <1>0, <1>11, <1>12, IntervalInduction
<1>14. u \in [0 .. m -> Nat]
  BY <1>8, <1>13 DEF G
<1>15. \A i \in 1 .. m : u[i] = u[i - 1] * ByteSpace + bytes[i]
  BY <1>10 DEF Step
<1>16. AreValues(u, bytes)
  BY <1>9, <1>14, <1>15 DEF AreValues, m
<1> QED
  BY <1>1, <1>16 DEF m

\* A number below b * p has a quotient below p.
LEMMA QuotientLess ==
  ASSUME NEW x \in Nat, NEW b \in Nat \ {0}, NEW p \in Nat, x < b * p
  PROVE  x \div b < p
<1> DEFINE d == x \div b
           r == x % b
<1>1. d \in Nat /\ r \in Nat /\ x = b * d + r
  OBVIOUS
<1> HIDE DEF d, r
<1>2. CASE d < p
  BY <1>2 DEF d
<1>3. CASE ~(d < p)
  <2>1. PICK e \in Nat : d = p + e
    <3>1. d - p \in Nat /\ d = p + (d - p)
      BY <1>1, <1>3
    <3> QED
      BY <3>1
  <2>2. b * d = b * p + b * e
    BY <2>1
  <2>3. b * p \in Nat /\ b * e \in Nat
    BY <2>1
  <2> QED
    BY <1>1, <2>2, <2>3
<1> QED
  BY <1>2, <1>3

\* What is left of a number without as many digits as it has is nothing.
LEMMA ShiftsVanish ==
  ASSUME NEW width \in Nat, NEW n \in Nat, n < Power(ByteSpace, width)
  PROVE  Shifted(n, width)[width] = 0
<1> DEFINE s == Shifted(n, width)
           P(k) == Power(ByteSpace, k)
           H == {i \in 0 .. width : s[i] < P(width - i)}
<1>1. ByteSpace \in Nat \ {0}
  BY ByteSpaceIs
<1>2. P(0) = 1 /\ \A k \in Nat : P(k) \in Nat \ {0} /\ P(k + 1) = ByteSpace * P(k)
  BY <1>1, PowerIs
<1>3. AreShifts(s, n, width)
  BY ShiftsAre
<1> HIDE DEF s, P
<1>4. 0 \in H
  <2>1. s[0] < P(width) /\ width - 0 = width
    BY <1>3 DEF AreShifts, P
  <2> QED
    BY <2>1
<1>5. ASSUME NEW i \in 1 .. width, i - 1 \in H PROVE i \in H
  <2> DEFINE k == width - i
             x == s[i - 1]
  <2>1. k \in Nat /\ width - (i - 1) = k + 1 /\ i \in 0 .. width /\ i - 1 \in 0 .. width
    OBVIOUS
  <2>2. x < P(k + 1) /\ x \in Nat
    BY <1>3, <1>5, <2>1 DEF AreShifts
  <2> HIDE DEF k
  <2>3. s[i] = x \div ByteSpace
    BY <1>3 DEF AreShifts
  <2> HIDE DEF x
  <2>4. x \div ByteSpace < P(k)
    <3> DEFINE p == P(k)
    <3>1. p \in Nat /\ x < ByteSpace * p
      BY <1>2, <2>1, <2>2
    <3> HIDE DEF p
    <3>2. x \div ByteSpace < p
      BY <1>1, <2>2, <3>1, QuotientLess
    <3> QED
      BY <3>2 DEF p
  <2> QED
    BY <2>1, <2>3, <2>4 DEF k
<1> HIDE DEF H
<1>6. width \in H
  BY <1>4, <1>5, IntervalInduction
<1>7. s[width] \in Nat /\ s[width] < P(0)
  BY <1>3, <1>6 DEF H, AreShifts
<1> QED
  BY <1>2, <1>7 DEF s

\* A word has as many bytes as it should, each the lowest digit of a shift.
LEMMA WordIs ==
  ASSUME NEW n \in Nat, NEW width \in Nat
  PROVE  /\ BigEndian(n, width) \in Seq(Byte) /\ Len(BigEndian(n, width)) = width
         /\ \A i \in 1 .. width : BigEndian(n, width)[i] = Shifted(n, width)[width - i] % ByteSpace
<1> DEFINE s == Shifted(n, width)
<1>1. \A i \in 1 .. width : s[width - i] % ByteSpace \in Byte
  <2> TAKE i \in 1 .. width
  <2>1. width - i \in 0 .. width
    OBVIOUS
  <2>2. s[width - i] \in Nat
    BY <2>1, ShiftsAre DEF AreShifts
  <2> QED
    BY <2>2, DigitIs
<1> HIDE DEF s
<1>2. BigEndian(n, width) = [i \in 1 .. width |-> s[width - i] % ByteSpace]
  BY DEF BigEndian, s
<1> QED
  BY <1>1, <1>2 DEF s

\* A number that fits a word is read back.
LEMMA BigReadsBack ==
  ASSUME NEW width \in Nat, NEW n \in Nat, n < Power(ByteSpace, width)
  PROVE  FromBigEndian(BigEndian(n, width)) = n
<1> DEFINE s == Shifted(n, width)
           w == BigEndian(n, width)
<1>1. AreShifts(s, n, width) /\ s[width] = 0
  BY ShiftsAre, ShiftsVanish
<1>2. w \in Seq(Byte) /\ Len(w) = width /\ \A i \in 1 .. width : w[i] = s[width - i] % ByteSpace
  BY WordIs
<1> HIDE DEF s, w
<1>3. PICK v : AreValues(v, w) /\ FromBigEndian(w) = v[width]
  BY <1>2, ValuesAre
<1> DEFINE H == {i \in 0 .. width : v[i] = s[width - i]}
<1>4. 0 \in H
  <2>1. v[0] = 0 /\ width - 0 = width
    BY <1>3 DEF AreValues
  <2> QED
    BY <1>1, <2>1
<1>5. ASSUME NEW i \in 1 .. width, i - 1 \in H PROVE i \in H
  <2> DEFINE k == width - i
             x == s[k]
  <2>1. k \in 0 .. width /\ width - (i - 1) = k + 1 /\ i \in 0 .. width /\ i - 1 \in 0 .. width
        /\ k + 1 \in 1 .. width /\ (k + 1) - 1 = k
    OBVIOUS
  <2> HIDE DEF k
  <2>2. x \in Nat
    BY <1>1, <2>1 DEF AreShifts
  <2>3. s[k + 1] = x \div ByteSpace
    BY <1>1, <2>1 DEF AreShifts
  <2>4. w[i] = x % ByteSpace
    BY <1>2 DEF k
  <2>5. v[i] = v[i - 1] * ByteSpace + w[i]
    BY <1>2, <1>3 DEF AreValues
  <2>6. v[i - 1] = x \div ByteSpace
    BY <1>5, <2>1, <2>3
  <2> HIDE DEF x
  <2>7. v[i] = x
    BY <2>2, <2>4, <2>5, <2>6, DigitIs
  <2> QED
    BY <2>1, <2>7 DEF k, x
<1> HIDE DEF H
<1>6. width \in H
  BY <1>4, <1>5, IntervalInduction
<1>7. v[width] = s[0]
  BY <1>6 DEF H
<1> QED
  BY <1>1, <1>3, <1>7 DEF AreShifts, w

\* Bytes turned round twice are as they were.
LEMMA TurnedTwice ==
  ASSUME NEW S, NEW s \in Seq(S)
  PROVE  /\ Reverse(s) \in Seq(S) /\ Len(Reverse(s)) = Len(s)
         /\ Reverse(Reverse(s)) = s
<1> DEFINE n == Len(s)
           t == Reverse(s)
<1>1. n \in Nat /\ s = [i \in 1 .. n |-> s[i]]
  OBVIOUS
<1>2. t = [i \in 1 .. n |-> s[(n - i) + 1]]
  BY DEF Reverse
<1>3. t \in Seq(S) /\ Len(t) = n
  BY <1>2
<1> HIDE DEF n, t
<1>4. Reverse(t) = [i \in 1 .. n |-> t[(n - i) + 1]]
  BY <1>3 DEF Reverse
<1>5. ASSUME NEW i \in 1 .. n PROVE t[(n - i) + 1] = s[i]
  <2>1. (n - i) + 1 \in 1 .. n /\ (n - ((n - i) + 1)) + 1 = i
    BY <1>1
  <2> QED
    BY <1>2, <2>1
<1> QED
  BY <1>1, <1>3, <1>4, <1>5 DEF n, t

\* So is one that is turned round.
LEMMA LittleReadsBack ==
  ASSUME NEW width \in Nat, NEW n \in Nat
  PROVE  /\ LittleEndian(n, width) \in Seq(Byte) /\ Len(LittleEndian(n, width)) = width
         /\ n < Power(ByteSpace, width) => FromLittleEndian(LittleEndian(n, width)) = n
<1> DEFINE w == BigEndian(n, width)
<1>1. w \in Seq(Byte) /\ Len(w) = width
  BY WordIs
<1>2. n < Power(ByteSpace, width) => FromBigEndian(w) = n
  BY BigReadsBack
<1> HIDE DEF w
<1> QED
  BY <1>1, <1>2, TurnedTwice DEF LittleEndian, FromLittleEndian, w

\* What holds first and not last fails at some step.
LEMMA SomewhereFails ==
  ASSUME NEW n \in Nat, NEW S, 0 \in S, n \notin S
  PROVE  \E i \in 1 .. n : i - 1 \in S /\ i \notin S
<1>1. n \in 0 .. n
  OBVIOUS
<1>2. CASE \A i \in 1 .. n : i - 1 \in S => i \in S
  BY <1>1, <1>2, IntervalInduction
<1> QED
  BY <1>2

\* A number is of its digit and the rest, which compare one after the other.
LEMMA DigitsCompare ==
  ASSUME NEW a \in Nat, NEW b \in Nat
  PROVE  /\ a <= b => a \div ByteSpace <= b \div ByteSpace
         /\ a = b <=> a \div ByteSpace = b \div ByteSpace /\ a % ByteSpace = b % ByteSpace
         /\ a \div ByteSpace = b \div ByteSpace => (a < b <=> a % ByteSpace < b % ByteSpace)
<1> DEFINE d == a \div ByteSpace
           e == b \div ByteSpace
           r == a % ByteSpace
           t == b % ByteSpace
<1>1. ByteSpace \in Nat \ {0}
  BY ByteSpaceIs
<1>2. d \in Nat /\ e \in Nat /\ r \in 0 .. ByteSpace - 1 /\ t \in 0 .. ByteSpace - 1
      /\ a = d * ByteSpace + r /\ b = e * ByteSpace + t
  BY DigitIs DEF Byte
<1>3. a < ByteSpace * (e + 1) => d < e + 1
  BY <1>1, <1>2, QuotientLess
<1> HIDE DEF d, e, r, t
<1>4. ByteSpace * (e + 1) = e * ByteSpace + ByteSpace /\ e * ByteSpace \in Nat /\ d * ByteSpace \in Nat
  BY <1>1, <1>2
<1>5. a <= b => d <= e
  BY <1>1, <1>2, <1>3, <1>4
<1>6. a = b => d = e /\ r = t
  BY DEF d, e, r, t
<1>7. d = e => d * ByteSpace = e * ByteSpace
  OBVIOUS
<1>8. d = e /\ r = t => a = b
  BY <1>2, <1>7
<1>9. d = e => (a < b <=> r < t)
  BY <1>1, <1>2, <1>4, <1>7
<1> QED
  BY <1>5, <1>6, <1>8, <1>9 DEF d, e, r, t

\* Shifting keeps the order.
LEMMA ShiftsOrdered ==
  ASSUME NEW width \in Nat, NEW m \in Nat, NEW n \in Nat, m <= n
  PROVE  \A i \in 0 .. width : Shifted(m, width)[i] <= Shifted(n, width)[i]
<1> DEFINE s == Shifted(m, width)
           t == Shifted(n, width)
<1>1. AreShifts(s, m, width) /\ AreShifts(t, n, width)
  BY ShiftsAre
<1> HIDE DEF s, t
<1> DEFINE H == {i \in 0 .. width : s[i] <= t[i]}
<1>2. 0 \in H
  BY <1>1 DEF AreShifts
<1>3. ASSUME NEW i \in 1 .. width, i - 1 \in H PROVE i \in H
  <2> DEFINE a == s[i - 1]
             b == t[i - 1]
  <2>1. i - 1 \in 0 .. width /\ i \in 0 .. width
    OBVIOUS
  <2>2. a \in Nat /\ b \in Nat /\ a <= b /\ s[i] = a \div ByteSpace /\ t[i] = b \div ByteSpace
    BY <1>1, <1>3, <2>1 DEF AreShifts
  <2> HIDE DEF a, b
  <2>3. s[i] <= t[i]
    BY <2>2, DigitsCompare
  <2> QED
    BY <2>1, <2>3
<1> HIDE DEF H
<1>4. \A i \in 0 .. width : i \in H
  BY <1>2, <1>3, IntervalInduction
<1> QED
  BY <1>4 DEF H, s, t

\* Words compare as their numbers do.
LEMMA WordsKeepOrder ==
  ASSUME NEW width \in Nat,
         NEW m \in Nat, m < Power(ByteSpace, width),
         NEW n \in Nat, n < Power(ByteSpace, width)
  PROVE  m < n <=> BytesLess(BigEndian(m, width), BigEndian(n, width))
<1> DEFINE s == Shifted(m, width)
           t == Shifted(n, width)
           a == BigEndian(m, width)
           b == BigEndian(n, width)
           A(j) == \A i \in 1 .. j : a[i] = b[i]
<1>1. AreShifts(s, m, width) /\ AreShifts(t, n, width) /\ s[width] = 0 /\ t[width] = 0
  BY ShiftsAre, ShiftsVanish
<1>2. Len(a) = width /\ Len(b) = width
      /\ \A i \in 1 .. width : a[i] = s[width - i] % ByteSpace /\ b[i] = t[width - i] % ByteSpace
  BY WordIs
<1>3. /\ m <= n => \A i \in 0 .. width : s[i] <= t[i]
      /\ n <= m => \A i \in 0 .. width : t[i] <= s[i]
  BY ShiftsOrdered
<1> HIDE DEF s, t, a, b
\* What is left of both numbers, one digit earlier.
<1>4. ASSUME NEW i \in 1 .. width
      PROVE  \E x, y \in Nat :
               /\ s[width - i] = x /\ s[width - (i - 1)] = x \div ByteSpace /\ a[i] = x % ByteSpace
               /\ t[width - i] = y /\ t[width - (i - 1)] = y \div ByteSpace /\ b[i] = y % ByteSpace
  <2> DEFINE k == width - i
  <2>1. k \in 0 .. width /\ k + 1 \in 1 .. width /\ (k + 1) - 1 = k /\ width - (i - 1) = k + 1
    OBVIOUS
  <2> HIDE DEF k
  <2>2. s[k] \in Nat /\ t[k] \in Nat /\ s[k + 1] = s[k] \div ByteSpace /\ t[k + 1] = t[k] \div ByteSpace
    BY <1>1, <2>1 DEF AreShifts
  <2>3. a[i] = s[k] % ByteSpace /\ b[i] = t[k] % ByteSpace
    BY <1>2 DEF k
  <2> DEFINE x == s[k]
             y == t[k]
  <2> HIDE DEF x, y
  <2>4. /\ s[width - i] = x /\ s[width - (i - 1)] = x \div ByteSpace /\ a[i] = x % ByteSpace
        /\ t[width - i] = y /\ t[width - (i - 1)] = y \div ByteSpace /\ b[i] = y % ByteSpace
    BY <2>1, <2>2, <2>3 DEF k, x, y
  <2>5. x \in Nat /\ y \in Nat
    BY <2>2 DEF x, y
  <2> QED
    BY <2>4, <2>5
<1>5. ASSUME NEW j \in 1 .. width PROVE A(j) <=> A(j - 1) /\ a[j] = b[j]
  BY <1>5
<1> DEFINE H == {j \in 0 .. width : A(j) <=> s[width - j] = t[width - j]}
<1>6. 0 \in H
  <2>1. width - 0 = width /\ 0 \in 0 .. width /\ 1 .. 0 = {}
    OBVIOUS
  <2>2. A(0)
    BY <2>1
  <2> QED
    BY <1>1, <2>1, <2>2
<1>7. ASSUME NEW j \in 1 .. width, j - 1 \in H PROVE j \in H
  <2>1. PICK x, y \in Nat :
          /\ s[width - j] = x /\ s[width - (j - 1)] = x \div ByteSpace /\ a[j] = x % ByteSpace
          /\ t[width - j] = y /\ t[width - (j - 1)] = y \div ByteSpace /\ b[j] = y % ByteSpace
    BY <1>4
  <2>2. x = y <=> x \div ByteSpace = y \div ByteSpace /\ x % ByteSpace = y % ByteSpace
    BY DigitsCompare
  <2>3. A(j - 1) <=> x \div ByteSpace = y \div ByteSpace
    BY <1>7, <2>1
  <2>4. A(j) <=> A(j - 1) /\ a[j] = b[j]
    BY <1>5
  <2>5. j \in 0 .. width
    OBVIOUS
  <2> HIDE DEF A
  <2>6. A(j) <=> s[width - j] = t[width - j]
    BY <2>1, <2>2, <2>3, <2>4
  <2> QED
    BY <2>5, <2>6
<1>8. \A j \in 0 .. width : j \in H
  <2> HIDE DEF H
  <2> QED
    BY <1>6, <1>7, IntervalInduction
<1>9. \A j \in 0 .. width : A(j) <=> s[width - j] = t[width - j]
  <2> HIDE DEF A
  <2> QED
    BY <1>8
<1>10. BytesLess(a, b) <=> \E j \in 0 .. width : A(j) /\ j < width /\ a[j + 1] < b[j + 1]
  BY <1>2 DEF BytesLess
<1> HIDE DEF A, H
<1>11. ASSUME m < n PROVE \E j \in 0 .. width : A(j) /\ j < width /\ a[j + 1] < b[j + 1]
  <2> DEFINE G == {j \in 0 .. width : A(j)}
  <2>1. 0 \in G
    BY <1>1, <1>9
  <2>2. width \notin G
    <3>1. width - width = 0 /\ width \in 0 .. width
      OBVIOUS
    <3>2. s[0] = m /\ t[0] = n
      BY <1>1 DEF AreShifts
    <3>3. m # n
      BY <1>11
    <3> QED
      BY <1>9, <3>1, <3>2, <3>3
  <2>3. PICK j \in 1 .. width : j - 1 \in G /\ j \notin G
    <3> HIDE DEF G
    <3> QED
      BY <2>1, <2>2, SomewhereFails
  <2>4. PICK x, y \in Nat :
          /\ s[width - j] = x /\ s[width - (j - 1)] = x \div ByteSpace /\ a[j] = x % ByteSpace
          /\ t[width - j] = y /\ t[width - (j - 1)] = y \div ByteSpace /\ b[j] = y % ByteSpace
    BY <1>4
  <2>5. j \in 0 .. width /\ j - 1 \in 0 .. width /\ width - j \in 0 .. width /\ j - 1 < width /\ (j - 1) + 1 = j
    OBVIOUS
  <2>6. A(j - 1) /\ ~A(j)
    BY <2>3, <2>5
  <2>7. x \div ByteSpace = y \div ByteSpace /\ x # y
    BY <1>9, <2>4, <2>5, <2>6
  <2>8. x <= y
    BY <1>3, <1>11, <2>4, <2>5
  <2>9. x % ByteSpace < y % ByteSpace
    BY <2>7, <2>8, DigitsCompare
  <2>10. a[(j - 1) + 1] < b[(j - 1) + 1]
    BY <2>4, <2>5, <2>9
  <2> DEFINE k == j - 1
  <2>11. k \in 0 .. width /\ A(k) /\ k < width /\ a[k + 1] < b[k + 1]
    BY <2>5, <2>6, <2>10
  <2> HIDE DEF k
  <2> QED
    BY <2>11
<1>12. ASSUME NEW j \in 0 .. width, A(j), j < width, a[j + 1] < b[j + 1] PROVE m < n
  <2> DEFINE k == j + 1
  <2>1. k \in 1 .. width /\ k - 1 = j /\ width - k \in 0 .. width /\ a[k] < b[k]
    BY <1>12
  <2> HIDE DEF k
  <2>2. PICK x, y \in Nat :
          /\ s[width - k] = x /\ s[width - (k - 1)] = x \div ByteSpace /\ a[k] = x % ByteSpace
          /\ t[width - k] = y /\ t[width - (k - 1)] = y \div ByteSpace /\ b[k] = y % ByteSpace
    BY <1>4, <2>1
  <2>3. x \div ByteSpace = y \div ByteSpace
    BY <1>9, <1>12, <2>1, <2>2
  <2>4. x % ByteSpace < y % ByteSpace
    BY <2>1, <2>2
  <2>5. x < y
    BY <2>3, <2>4, DigitsCompare
  <2>6. ~(y <= x)
    BY <2>5
  <2>7. ~(n <= m)
    BY <1>3, <2>1, <2>2, <2>6
  <2> QED
    BY <2>7
<1> QED
  BY <1>10, <1>11, <1>12 DEF a, b

-----------------------------------------------------------------------------
(* Taking byte strings apart.                                              *)

\* Two strings one behind the other are taken apart again.
LEMMA TakenApart ==
  ASSUME NEW S, NEW a \in Seq(S), NEW b \in Seq(S)
  PROVE  /\ a \o b \in Seq(S) /\ Len(a \o b) = Len(a) + Len(b)
         /\ FirstBytes(a \o b, Len(a)) = a
         /\ Beyond(a \o b, Len(a)) = b
<1> DEFINE n == Len(a)
           k == Len(b)
           s == a \o b
<1>1. n \in Nat /\ k \in Nat /\ s \in Seq(S) /\ Len(s) = n + k
  OBVIOUS
<1>2. a = [i \in 1 .. n |-> a[i]] /\ b = [i \in 1 .. k |-> b[i]]
  OBVIOUS
<1>3. (\A i \in 1 .. n : s[i] = a[i]) /\ (\A i \in 1 .. k : s[n + i] = b[i])
  OBVIOUS
<1> HIDE DEF s, n, k
<1>4. FirstBytes(s, n) = a
  <2>1. FirstBytes(s, n) = SubSeq(s, 1, n)
    BY <1>1 DEF FirstBytes
  <2>2. SubSeq(s, 1, n) = [i \in 1 .. n |-> s[i]]
    BY <1>1
  <2> QED
    BY <1>2, <1>3, <2>1, <2>2
<1>5. Beyond(s, n) = b
  <2>1. Beyond(s, n) = SubSeq(s, n + 1, n + k)
    BY <1>1 DEF Beyond
  <2>2. SubSeq(s, n + 1, n + k) = [i \in 1 .. k |-> s[n + i]]
    BY <1>1
  <2> QED
    BY <1>2, <1>3, <2>1, <2>2
<1> QED
  BY <1>1, <1>4, <1>5 DEF s, n, k

\* A string is its first bytes and the others.
LEMMA CutInTwo ==
  ASSUME NEW S, NEW s \in Seq(S), NEW n \in Nat
  PROVE  /\ Beyond(s, n) \in Seq(S)
         /\ n <= Len(s) => /\ FirstBytes(s, n) \in Seq(S) /\ Len(FirstBytes(s, n)) = n
                           /\ s = FirstBytes(s, n) \o Beyond(s, n)
                           /\ Len(Beyond(s, n)) = Len(s) - n
<1> DEFINE k == Len(s)
           a == FirstBytes(s, n)
           b == Beyond(s, n)
<1>1. k \in Nat /\ s = [i \in 1 .. k |-> s[i]] /\ \A i \in 1 .. k : s[i] \in S
  OBVIOUS
<1>2. b = SubSeq(s, n + 1, k)
  BY DEF Beyond
<1>3. b \in Seq(S)
  BY <1>1, <1>2
<1>4. CASE n <= k
  <2>1. a = SubSeq(s, 1, n)
    BY <1>1, <1>4 DEF FirstBytes
  <2>2. a = [i \in 1 .. n |-> s[i]] /\ b = [i \in 1 .. k - n |-> s[n + i]]
    BY <1>1, <1>2, <1>4, <2>1
  <2>3. a \in Seq(S) /\ Len(a) = n
    BY <1>1, <1>4, <2>1, SubSeqProperties
  <2>4. Len(b) = k - n
    BY <1>1, <1>4, <2>2
  <2> HIDE DEF a, b, k
  <2>5. a \o b \in Seq(S) /\ Len(a \o b) = k
        /\ \A i \in 1 .. k : (a \o b)[i] = IF i <= n THEN a[i] ELSE b[i - n]
    <3>1. n + (k - n) = k
      BY <1>1
    <3>2. Len(a) + Len(b) = k
      BY <2>3, <2>4, <3>1
    <3>3. /\ a \o b \in Seq(S) /\ Len(a \o b) = Len(a) + Len(b)
          /\ \A i \in 1 .. Len(a) + Len(b) : (a \o b)[i] = IF i <= Len(a) THEN a[i] ELSE b[i - Len(a)]
      BY <1>3, <2>3, ConcatProperties
    <3> QED
      BY <2>3, <3>2, <3>3
  <2>6. ASSUME NEW i \in 1 .. k PROVE (a \o b)[i] = s[i]
    <3>1. CASE i <= n
      BY <2>2, <2>5, <3>1
    <3>2. CASE ~(i <= n)
      <4>1. i - n \in 1 .. k - n /\ n + (i - n) = i
        BY <1>1, <3>2
      <4> QED
        BY <2>2, <2>5, <3>2, <4>1
    <3> QED
      BY <3>1, <3>2
  <2>7. a \o b = s
    BY <2>5, <2>6, SeqEqual DEF k
  <2> QED
    BY <1>3, <2>3, <2>4, <2>7 DEF a, b, k
<1> HIDE DEF a, b
<1>5. CASE ~(n <= k)
  BY <1>3, <1>5 DEF a, b
<1> QED
  BY <1>4, <1>5

\* Strings one behind the other, in either order of putting them so.
LEMMA Associates ==
  ASSUME NEW S, NEW a \in Seq(S), NEW b \in Seq(S), NEW c \in Seq(S)
  PROVE  (a \o b) \o c = a \o (b \o c)
  BY ConcatAssociative

\* More bytes behind a string do not change its beginning.
LEMMA CutLonger ==
  ASSUME NEW S, NEW s \in Seq(S), NEW more \in Seq(S), NEW n \in Nat, n <= Len(s)
  PROVE  /\ FirstBytes(s \o more, n) = FirstBytes(s, n)
         /\ Beyond(s \o more, n) = Beyond(s, n) \o more
<1> DEFINE a == FirstBytes(s, n)
           b == Beyond(s, n)
<1>1. a \in Seq(S) /\ b \in Seq(S) /\ Len(a) = n /\ s = a \o b
  BY CutInTwo
<1> HIDE DEF a, b
<1>2. s \o more = a \o (b \o more) /\ b \o more \in Seq(S)
  BY <1>1, Associates, SMTT(30)
<1>3. FirstBytes(a \o (b \o more), n) = a /\ Beyond(a \o (b \o more), n) = b \o more
  BY <1>1, <1>2, TakenApart
<1> QED
  BY <1>2, <1>3 DEF a, b

\* A piece of a string.
LEMMA PieceIs ==
  ASSUME NEW S, NEW s \in Seq(S), NEW m \in Nat, NEW n \in Nat, m + n <= Len(s)
  PROVE  /\ SubSeq(s, m + 1, m + n) = FirstBytes(Beyond(s, m), n)
         /\ Beyond(s, m + n) = Beyond(Beyond(s, m), n)
<1> DEFINE k == Len(s)
           b == Beyond(s, m)
<1>1. k \in Nat /\ m <= k
  OBVIOUS
<1>2. b \in Seq(S) /\ Len(b) = k - m
  BY <1>1, CutInTwo
<1>3. b = [i \in 1 .. k - m |-> s[m + i]]
  BY <1>1 DEF Beyond
<1> HIDE DEF b
<1>4. SubSeq(s, m + 1, m + n) = [i \in 1 .. n |-> s[m + i]]
  BY <1>1
<1>5. FirstBytes(b, n) = SubSeq(b, 1, n)
  BY <1>1, <1>2 DEF FirstBytes
<1>6. SubSeq(b, 1, n) = [i \in 1 .. n |-> b[i]]
  BY <1>1, <1>2
<1>7. \A i \in 1 .. n : i \in 1 .. k - m /\ b[i] = s[m + i]
  BY <1>1, <1>3
<1>8. SubSeq(s, m + 1, m + n) = FirstBytes(b, n)
  BY <1>4, <1>5, <1>6, <1>7
<1>9. Beyond(s, m + n) = [i \in 1 .. k - (m + n) |-> s[(m + n) + i]]
  BY <1>1 DEF Beyond
<1>10. Beyond(b, n) = [i \in 1 .. (k - m) - n |-> b[n + i]]
  BY <1>1, <1>2 DEF Beyond
<1>11. ASSUME NEW i \in 1 .. k - (m + n) PROVE b[n + i] = s[(m + n) + i]
  <2>1. n + i \in 1 .. k - m /\ m + (n + i) = (m + n) + i
    BY <1>1
  <2> QED
    BY <1>3, <2>1
<1>12. (k - m) - n = k - (m + n)
  BY <1>1
<1>13. Beyond(s, m + n) = Beyond(b, n)
  BY <1>9, <1>10, <1>11, <1>12
<1> QED
  BY <1>8, <1>13 DEF b

\* What is left of all parts in a row after the first, the first two, and so on.
AreTails(tail, parts, S) ==
  /\ tail \in [0 .. Len(parts) -> Seq(S)]
  /\ tail[Len(parts)] = <<>>
  /\ \A i \in 1 .. Len(parts) : tail[i - 1] = parts[i] \o tail[i]

\* The parts have such tails, and the first tail is all of them.
LEMMA TailsAre ==
  ASSUME NEW S, NEW parts \in Seq(Seq(S))
  PROVE  \E tail : AreTails(tail, parts, S) /\ tail[0] = FlattenSeq(parts)
<1> DEFINE n == Len(parts)
           T == [k \in 0 .. n |-> Seq(S)]
           g == [q \in Seq(S) \X (1 .. n) |-> parts[n - q[2] + 1] \o q[1]]
<1>1. n \in Nat /\ \A i \in 1 .. n : parts[i] \in Seq(S)
  OBVIOUS
<1>2. <<>> \in Seq(S)
  OBVIOUS
<1> HIDE DEF n
<1>3. \A k \in 1 .. n : \A x \in T[k - 1] : g[<<x, k>>] = parts[n - k + 1] \o x /\ g[<<x, k>>] \in T[k]
  <2> TAKE k \in 1 .. n
  <2> TAKE x \in T[k - 1]
  <2>1. n - k + 1 \in 1 .. n /\ k - 1 \in 0 .. n /\ k \in 0 .. n
    BY <1>1
  <2>2. parts[n - k + 1] \in Seq(S) /\ x \in Seq(S)
    BY <1>1, <2>1
  <2>3. parts[n - k + 1] \o x \in Seq(S)
    BY <2>2, ConcatProperties
  <2> QED
    BY <2>1, <2>2, <2>3
<1>4. <<>> \in T[0]
  BY <1>1, <1>2
<1> HIDE DEF g, T
<1>5. PICK f : IsTurns(f, g, <<>>, n) /\ \A k \in 0 .. n : f[k] \in T[k]
  BY <1>1, <1>3, <1>4, Turns
<1> DEFINE tail == [i \in 0 .. n |-> f[n - i]]
<1>6. \A i \in 0 .. n : tail[i] \in Seq(S)
  <2> TAKE i \in 0 .. n
  <2>1. n - i \in 0 .. n
    BY <1>1
  <2> QED
    BY <1>5, <2>1 DEF T
<1>7. tail[n] = <<>>
  <2>1. n - n = 0 /\ n \in 0 .. n /\ 0 \in 0 .. n
    BY <1>1
  <2>2. f[0] = <<>>
    BY <1>5, <2>1 DEF IsTurns
  <2> QED
    BY <2>1, <2>2
<1>8. \A i \in 1 .. n : tail[i - 1] = parts[i] \o tail[i]
  <2> TAKE i \in 1 .. n
  <2> DEFINE k == n - i + 1
  <2>1. k \in 1 .. n /\ k \in 0 .. n /\ k # 0 /\ n - (i - 1) = k /\ k - 1 = n - i /\ n - k + 1 = i
        /\ i - 1 \in 0 .. n /\ i \in 0 .. n /\ k - 1 \in 0 .. n
    BY <1>1
  <2> HIDE DEF k
  <2>2. f[k] = g[<<f[k - 1], k>>]
    BY <1>5, <2>1 DEF IsTurns
  <2>3. f[k] = parts[i] \o f[k - 1]
    BY <1>3, <1>5, <2>1, <2>2
  <2> QED
    BY <2>1, <2>3
<1>9. AreTails(tail, parts, S)
  <2>1. tail \in [0 .. n -> Seq(S)]
    BY <1>6
  <2> HIDE DEF tail
  <2> QED
    BY <1>7, <1>8, <2>1 DEF AreTails, n
<1> HIDE DEF tail
<1>10. CASE n = 0
  <2>1. parts = <<>> /\ FlattenSeq(parts) = parts
    BY <1>10 DEF FlattenSeq, n
  <2> QED
    BY <1>7, <1>9, <1>10, <2>1
<1>11. CASE n # 0
  <2> DEFINE Is(h) == h = [i \in 1 .. n |-> IF i = 1 THEN parts[i] ELSE h[i - 1] \o parts[i]]
             flat == CHOOSE h : Is(h)
             p == [q \in Seq(S) \X (1 .. n) |-> q[1] \o parts[q[2]]]
  <2>1. FlattenSeq(parts) = flat[n]
    BY <1>11 DEF FlattenSeq, n
  <2>2. \A k \in 1 .. n : \A x \in T[k - 1] : p[<<x, k>>] = x \o parts[k] /\ p[<<x, k>>] \in T[k]
    <3> TAKE k \in 1 .. n
    <3> TAKE x \in T[k - 1]
    <3>1. k - 1 \in 0 .. n /\ k \in 0 .. n
      BY <1>1
    <3>2. parts[k] \in Seq(S) /\ x \in Seq(S)
      BY <1>1, <3>1 DEF T
    <3>3. x \o parts[k] \in Seq(S)
      BY <3>2, ConcatProperties
    <3> QED
      BY <3>1, <3>2, <3>3 DEF T
  <2> HIDE DEF p
  <2>3. PICK h : IsTurns(h, p, <<>>, n) /\ \A k \in 0 .. n : h[k] \in T[k]
    BY <1>1, <1>4, <2>2, Turns
  <2>4. \A k \in 1 .. n : k - 1 \in 0 .. n /\ k \in 0 .. n /\ (k # 1 => k - 1 \in 1 .. n)
    BY <1>1
  <2>5. \A k \in 1 .. n : h[k] = h[k - 1] \o parts[k]
    <3> TAKE k \in 1 .. n
    <3>1. k \in 0 .. n /\ k - 1 \in 0 .. n /\ k # 0
      BY <1>1
    <3>2. h[k] = p[<<h[k - 1], k>>]
      BY <2>3, <3>1 DEF IsTurns
    <3>3. h[k - 1] \in T[k - 1]
      BY <2>3, <3>1
    <3> QED
      BY <2>2, <3>2, <3>3
  <2>6. h[0] = <<>>
    BY <1>1, <2>3 DEF IsTurns
  <2>7. 1 \in 1 .. n => h[1] = parts[1]
    <3>1. ASSUME 1 \in 1 .. n PROVE h[1] = parts[1]
      <4>1. h[1] = h[1 - 1] \o parts[1] 
        BY <2>5, <3>1
      <4>2. parts[1] \in Seq(S)
        BY <1>1, <3>1
      <4>3. 1 - 1 = 0
        OBVIOUS
      <4>4. h[1] = <<>> \o parts[1]
        BY <2>6, <4>1, <4>3
      <4> QED
        BY <4>2, <4>4, ConcatEmptySeq
    <3> QED
      BY <3>1
  <2> DEFINE d == [i \in 1 .. n |-> h[i]]
  <2>8. \A i \in 1 .. n : d[i] = IF i = 1 THEN parts[i] ELSE d[i - 1] \o parts[i]
    BY <2>4, <2>5, <2>7
  <2>9. d = [i \in 1 .. n |-> d[i]]
    OBVIOUS
  <2> HIDE DEF d
  <2>10. Is(d)
    BY <2>8, <2>9
  <2>11. Is(flat)
    BY <2>10
  <2> HIDE DEF flat
  <2>12. \A i \in 1 .. n : flat[i] = IF i = 1 THEN parts[i] ELSE flat[i - 1] \o parts[i]
    BY <2>11
  <2> DEFINE Whole(i) == flat[i] \in Seq(S) /\ flat[i] \o tail[i] = tail[0]
             H == {i \in 0 .. n : i # 0 => Whole(i)}
  <2>13. 0 \in H
    BY <1>1
  <2>14. ASSUME NEW i \in 1 .. n, i - 1 \in H PROVE i \in H
    <3>1. parts[i] \in Seq(S) /\ tail[i] \in Seq(S) /\ tail[i - 1] = parts[i] \o tail[i] /\ i \in 0 .. n
      BY <1>1, <1>6, <1>8, <2>4
    <3>2. CASE i = 1
      <4>1. flat[i] = parts[i] /\ i - 1 = 0
        BY <2>12, <3>2
      <4>2. Whole(i)
        BY <3>1, <4>1
      <4> HIDE DEF Whole
      <4> QED
        BY <3>1, <4>2
    <3>3. CASE i # 1
      <4>1. flat[i] = flat[i - 1] \o parts[i]
        BY <2>12, <3>3
      <4>0. i - 1 # 0
        BY <3>3
      <4>2. Whole(i - 1)
        BY <2>14, <4>0
      <4> DEFINE a == flat[i - 1]
                 b == parts[i]
                 c == tail[i]
      <4>8. a \in Seq(S) /\ b \in Seq(S) /\ c \in Seq(S)
        BY <3>1, <4>2
      <4>3. a \in Seq(S) /\ b \in Seq(S) /\ a \o (b \o c) = tail[0] /\ flat[i] = a \o b
        BY <3>1, <4>1, <4>2
      <4> HIDE DEF a, b, c
      <4>4. a \o b \in Seq(S)
        BY <4>3, ConcatProperties
      <4>5. (a \o b) \o c = a \o (b \o c)
        BY <4>8, Associates, SMTT(30)
      <4>6. flat[i] \in Seq(S) /\ flat[i] \o c = tail[0]
        BY <4>3, <4>4, <4>5
      <4>7. Whole(i)
        BY <4>6 DEF c
      <4> HIDE DEF Whole
      <4> QED
        BY <3>1, <4>7
    <3> QED
      BY <3>2, <3>3
  <2> HIDE DEF H, Whole
  <2>15. \A i \in 0 .. n : i \in H
    BY <1>1, <2>13, <2>14, IntervalInduction
  <2>16. Whole(n)
    <3>1. n \in 0 .. n
      BY <1>1
    <3> QED
      BY <1>11, <2>15, <3>1 DEF H
  <2>17. flat[n] = tail[0]
    <3>1. flat[n] \in Seq(S) /\ flat[n] \o <<>> = tail[0]
      BY <1>7, <2>16 DEF Whole
    <3> QED
      BY <3>1, ConcatEmptySeq
  <2> QED
    BY <1>9, <2>1, <2>17
<1> QED
  BY <1>10, <1>11

-----------------------------------------------------------------------------
(* What decoders return.                                                   *)

\* Bytes, read as a number, are one.
LEMMA NumbersAreRead ==
  ASSUME NEW bytes \in Seq(Byte)
  PROVE  FromBigEndian(bytes) \in Nat /\ FromLittleEndian(bytes) \in Nat
<1>1. ASSUME NEW s \in Seq(Byte) PROVE FromBigEndian(s) \in Nat
  <2>1. PICK v : AreValues(v, s) /\ FromBigEndian(s) = v[Len(s)]
    BY ValuesAre
  <2>2. Len(s) \in 0 .. Len(s)
    OBVIOUS
  <2> QED
    BY <2>1, <2>2 DEF AreValues
<1> QED
  BY <1>1, TurnedTwice DEF FromLittleEndian

\* What a decoder may return.
IsResult(r) == r = Broken \/ (r = Decoded(r.v, r.rest) /\ r.rest \in Seq(Byte))

\* What it returns of more bytes, where it has not failed.
Longer(r, q, more) == r.ok => q = Decoded(r.v, r.rest \o more)

\* The fields of a result.
LEMMA ResultIs ==
  /\ Broken.ok = FALSE
  /\ \A v, rest : /\ Decoded(v, rest).ok = TRUE
                  /\ Decoded(v, rest).v = v /\ Decoded(v, rest).rest = rest
  /\ \A v, rest : Decoded(v, rest) # Broken
  BY DEF Broken, Decoded

\* A result that is not a failure, and one that is.
LEMMA ResultSplits ==
  ASSUME NEW r, IsResult(r)
  PROVE  /\ r.ok \in BOOLEAN
         /\ r.ok => r = Decoded(r.v, r.rest) /\ r.rest \in Seq(Byte)
         /\ ~r.ok => r = Broken
  BY ResultIs DEF IsResult

\* What has been decoded is a result.
LEMMA DecodedIsResult ==
  ASSUME NEW v, NEW rest \in Seq(Byte)
  PROVE  IsResult(Decoded(v, rest))
  BY ResultIs DEF IsResult

\* So is a failure.
LEMMA BrokenIsResult == IsResult(Broken)
  BY DEF IsResult

\* A string behind its length is read back, whatever follows.
LEMMA PrefixedReadsBack ==
  ASSUME NEW width \in Nat, NEW s \in Seq(Byte), NEW rest \in Seq(Byte)
  PROVE  /\ Prefixed(s, width) \in Seq(Byte)
         /\ Fits(Len(s), width) => TakePrefixed(Prefixed(s, width) \o rest, width) = Decoded(s, rest)
<1> DEFINE n == Len(s)
           h == LittleEndian(n, width)
           data == (h \o s) \o rest
<1>1. n \in Nat
  OBVIOUS
<1>2. h \in Seq(Byte) /\ Len(h) = width /\ (Fits(n, width) => FromLittleEndian(h) = n)
  BY <1>1, LittleReadsBack DEF Fits
<1>3. Prefixed(s, width) = h \o s
  BY DEF Prefixed
<1> HIDE DEF n, h
<1>4. h \o s \in Seq(Byte)
  BY <1>2, ConcatProperties
<1> DEFINE x == s \o rest
<1>5. x \in Seq(Byte) /\ Len(x) = n + Len(rest) /\ FirstBytes(x, n) = s /\ Beyond(x, n) = rest
  BY TakenApart DEF n
<1>6. data = h \o x
  BY <1>2, Associates, SMTT(30)
<1> HIDE DEF data, x
<1>7. data \in Seq(Byte) /\ Len(data) = width + Len(x) /\ FirstBytes(data, width) = h /\ Beyond(data, width) = x
  BY <1>2, <1>5, <1>6, TakenApart
<1>8. Len(rest) \in Nat
  OBVIOUS
<1>9. width + n <= Len(data) /\ width <= Len(data)
  BY <1>1, <1>5, <1>7, <1>8
<1>10. SubSeq(data, width + 1, width + n) = s /\ Beyond(data, width + n) = rest
  <2>1. SubSeq(data, width + 1, width + n) = FirstBytes(Beyond(data, width), n)
        /\ Beyond(data, width + n) = Beyond(Beyond(data, width), n)
    BY <1>1, <1>7, <1>9, PieceIs
  <2> QED
    BY <1>5, <1>7, <2>1
<1>11. ASSUME Fits(n, width) PROVE TakePrefixed(data, width) = Decoded(s, rest)
  <2>1. FromLittleEndian(FirstBytes(data, width)) = n
    BY <1>2, <1>7, <1>11
  <2>2. ~(Len(data) < width) /\ ~(Len(data) < width + n)
    BY <1>1, <1>7, <1>9
  <2> QED
    BY <1>10, <2>1, <2>2 DEF TakePrefixed
<1> QED
  BY <1>3, <1>4, <1>11 DEF data, n

\* What is taken, and that more bytes behind do not change it.
LEMMA TakenIs ==
  ASSUME NEW width \in Nat, NEW data \in Seq(Byte), NEW more \in Seq(Byte)
  PROVE  /\ IsResult(TakePrefixed(data, width))
         /\ TakePrefixed(data, width).ok => TakePrefixed(data, width).v \in Seq(Byte)
         /\ Longer(TakePrefixed(data, width), TakePrefixed(data \o more, width), more)
<1> DEFINE r == TakePrefixed(data, width)
           long == data \o more
           k == Len(data)
           n == FromLittleEndian(FirstBytes(data, width))
           tail == Beyond(data, width)
<1>1. k \in Nat /\ long \in Seq(Byte) /\ Len(long) = k + Len(more) /\ Len(more) \in Nat
  BY ConcatProperties
<1>2. CASE k < width
  <2>1. r = Broken
    BY <1>2 DEF TakePrefixed
  <2> HIDE DEF r, long
  <2> QED
    BY <2>1, BrokenIsResult, ResultIs DEF Longer, r
<1>3. CASE ~(k < width)
  <2>1. FirstBytes(data, width) \in Seq(Byte) /\ tail \in Seq(Byte)
    BY <1>1, <1>3, CutInTwo
  <2>2. n \in Nat
    BY <2>1, NumbersAreRead
  <2>3. FirstBytes(long, width) = FirstBytes(data, width)
    BY <1>1, <1>3, CutLonger
  <2>4. CASE k < width + n
    <3>1. r = Broken
      BY <2>4 DEF TakePrefixed
    <3> HIDE DEF r, long
    <3> QED
      BY <3>1, BrokenIsResult, ResultIs DEF Longer, r
  <2>5. CASE ~(k < width + n)
    <3> DEFINE v == SubSeq(data, width + 1, width + n)
               rest == Beyond(data, width + n)
    <3>1. r = Decoded(v, rest)
      BY <1>3, <2>5 DEF TakePrefixed
    <3>2. width + n \in Nat /\ width + n <= k /\ width + n <= Len(long) /\ width <= Len(long)
      BY <1>1, <2>2, <2>5
    <3>3. v = FirstBytes(tail, n) /\ n <= Len(tail)
      <4>1. Len(tail) = k - width
        <5>1. width <= Len(data)
          BY <1>1, <1>3
        <5> QED
          BY <5>1, CutInTwo
      <4>2. n <= Len(tail)
        BY <1>1, <2>2, <2>5, <4>1
      <4>3. v = FirstBytes(tail, n)
        BY <1>1, <2>2, <3>2, PieceIs
      <4> QED
        BY <4>2, <4>3
    <3>4. v \in Seq(Byte) /\ rest \in Seq(Byte)
      BY <2>1, <2>2, <3>2, <3>3, CutInTwo
    <3>5. SubSeq(long, width + 1, width + n) = v /\ Beyond(long, width + n) = rest \o more
      <4>1. SubSeq(long, width + 1, width + n) = FirstBytes(Beyond(long, width), n)
        BY <1>1, <2>2, <3>2, PieceIs
      <4>2. Beyond(long, width) = tail \o more
        BY <1>1, <1>3, CutLonger
      <4>3. FirstBytes(tail \o more, n) = FirstBytes(tail, n)
        BY <2>1, <2>2, <3>3, CutLonger
      <4>4. Beyond(long, width + n) = rest \o more
        BY <1>1, <3>2, CutLonger
      <4> QED
        BY <3>3, <4>1, <4>2, <4>3, <4>4
    <3> HIDE DEF v, rest, n, k, long
    <3>6. ~(Len(long) < width) /\ ~(Len(long) < width + n)
      BY <1>1, <2>2, <3>2
    <3>7. TakePrefixed(long, width) = Decoded(v, rest \o more)
      BY <2>3, <3>5, <3>6 DEF TakePrefixed, n
    <3> HIDE DEF r
    <3>8. IsResult(r) /\ (r.ok => r.v \in Seq(Byte)) /\ Longer(r, TakePrefixed(long, width), more)
      BY <3>1, <3>4, <3>7, ResultIs, DecodedIsResult DEF Longer
    <3> QED
      BY <3>8 DEF r, long
  <2> QED
    BY <2>4, <2>5
<1> QED
  BY <1>2, <1>3

-----------------------------------------------------------------------------
(* Integers, values and their keys.                                        *)

\* The remainder that a multiple and a remainder leave.
LEMMA RemainderIs ==
  ASSUME NEW m \in Nat \ {0}, NEW q \in Int, NEW r \in 0 .. m - 1
  PROVE  (m * q + r) % m = r /\ (m * q + r) \div m = q
  OBVIOUS

\* The remainder of a number that is not far off.
LEMMA RemainderNear ==
  ASSUME NEW m \in Nat \ {0}, NEW x \in Int
  PROVE  /\ x \in 0 .. m - 1 => x % m = x
         /\ x - m \in 0 .. m - 1 => x % m = x - m
         /\ x + m \in 0 .. m - 1 => x % m = x + m
<1>1. ASSUME NEW q \in Int, NEW r \in 0 .. m - 1, x = m * q + r PROVE x % m = r
  BY <1>1, RemainderIs
<1>2. m * 0 = 0 /\ m * 1 = m /\ m * (-1) = -m
  OBVIOUS
<1>3. ASSUME x \in 0 .. m - 1 PROVE x % m = x
  BY <1>1, <1>2, <1>3
<1>4. ASSUME x - m \in 0 .. m - 1 PROVE x % m = x - m
  <2> DEFINE r == x - m
  <2>1. x = m * 1 + r
    BY <1>2
  <2>2. r \in 0 .. m - 1
    BY <1>4
  <2> HIDE DEF r
  <2>3. x % m = r
    BY <1>1, <2>1, <2>2
  <2> QED
    BY <2>3 DEF r
<1>5. ASSUME x + m \in 0 .. m - 1 PROVE x % m = x + m
  <2> DEFINE r == x + m
  <2>1. x = m * (-1) + r
    BY <1>2
  <2>2. r \in 0 .. m - 1
    BY <1>5
  <2> HIDE DEF r
  <2>3. x % m = r
    BY <1>1, <2>1, <2>2
  <2> QED
    BY <2>3 DEF r
<1> QED
  BY <1>3, <1>4, <1>5

\* Half of the integers are negative.
LEMMA HalfIs == Half \in Nat \ {0} /\ IntSpace \in Nat \ {0} /\ IntSpace = Half + Half
<1> DEFINE bits == ByteBits - 1
           bytes == IntBytes - 1
           p == Power(2, bits)
           q == Power(ByteSpace, bytes)
           h == p * q
<1>1. ByteSpace \in Nat \ {0} /\ ByteSpace > 2 /\ ByteBits \in Nat /\ IntBytes \in Nat \ {0}
      /\ ByteSpace = Power(2, ByteBits)
  BY ByteSpaceIs, RowCodecAssumption
<1>2. ByteBits # 0
  BY <1>1, PowerIs
<1>3. bits \in Nat /\ bits + 1 = ByteBits /\ bytes \in Nat /\ bytes + 1 = IntBytes
  BY <1>1, <1>2
<1> HIDE DEF bits, bytes
<1>4. p \in Nat \ {0} /\ Power(2, bits + 1) = 2 * p
  <2>1. \A n \in Nat : Power(2, n) \in Nat \ {0} /\ Power(2, n + 1) = 2 * Power(2, n)
    <3>1. 2 \in Nat \ {0}
      OBVIOUS
    <3> QED
      BY <3>1, PowerIs
  <2> QED
    BY <1>3, <2>1
<1>5. q \in Nat \ {0} /\ Power(ByteSpace, bytes + 1) = ByteSpace * q
  BY <1>1, <1>3, PowerIs
<1>6. ByteSpace = 2 * p /\ IntSpace = ByteSpace * q
  BY <1>1, <1>3, <1>4, <1>5 DEF IntSpace
<1> HIDE DEF p, q
<1>7. h \in Nat \ {0} /\ IntSpace = 2 * h
  <2>1. ByteSpace * q = 2 * (p * q)
    BY <1>4, <1>5, <1>6
  <2>2. p * q \in Nat \ {0}
    BY <1>4, <1>5
  <2> QED
    BY <1>6, <2>1, <2>2
<1> HIDE DEF h
<1>8. IntSpace \div 2 = h
  BY <1>7
<1> QED
  BY <1>7, <1>8 DEF Half

\* An integer is read back, and as a key the smallest one is 0.
LEMMA IntegersAre ==
  ASSUME NEW x \in Integer
  PROVE  /\ Unsigned(x) \in Nat /\ Unsigned(x) < IntSpace /\ Signed(Unsigned(x)) = x
         /\ (Unsigned(x) + Half) % IntSpace = x + Half
         /\ x + Half \in Nat /\ x + Half < IntSpace
         /\ (x + Half + Half) % IntSpace = Unsigned(x)
<1> DEFINE h == Half
           s == IntSpace
<1>1. h \in Nat \ {0} /\ s \in Nat \ {0} /\ s = h + h /\ x \in -h .. h - 1
  BY HalfIs DEF Integer
<1>2. Unsigned(x) = x % s /\ \A n : Signed(n) = IF n < h THEN n ELSE n - s
  BY DEF Unsigned, Signed
<1> HIDE DEF h, s
<1>3. CASE x >= 0
  <2>1. x \in 0 .. s - 1 /\ x + h \in 0 .. s - 1 /\ (x + h + h) - s = x
    BY <1>1, <1>3
  <2>2. x % s = x /\ (x + h) % s = x + h /\ (x + h + h) % s = x
    <3> DEFINE y == x + h
               z == x + h + h
    <3>1. x \in Int /\ y \in Int /\ z \in Int /\ y \in 0 .. s - 1 /\ z - s \in 0 .. s - 1 /\ z - s = x
      BY <1>1, <2>1
    <3> HIDE DEF y, z
    <3>2. x % s = x
      BY <1>1, <2>1, <3>1, RemainderNear
    <3>3. y % s = y
      BY <1>1, <3>1, RemainderNear
    <3>4. z % s = z - s
      BY <1>1, <3>1, RemainderNear
    <3> QED
      BY <3>1, <3>2, <3>3, <3>4 DEF y, z
  <2>3. /\ Unsigned(x) \in Nat /\ Unsigned(x) < s /\ Signed(Unsigned(x)) = x
        /\ (Unsigned(x) + h) % s = x + h
        /\ x + h \in Nat /\ x + h < s
        /\ (x + h + h) % s = Unsigned(x)
    BY <1>1, <1>2, <1>3, <2>2
  <2> QED
    BY <2>3 DEF h, s
<1>4. CASE ~(x >= 0)
  <2> DEFINE u == x + s
  <2>1. u \in 0 .. s - 1 /\ x + h \in 0 .. s - 1 /\ (u + h) - s = x + h /\ x + h + h = u
    BY <1>1, <1>4
  <2>2. x % s = u /\ (u + h) % s = x + h /\ (x + h + h) % s = u
    <3>1. x % s = x + s
      <4>1. x \in Int /\ x + s \in 0 .. s - 1
        BY <1>1, <2>1
      <4> QED
        BY <1>1, <4>1, RemainderNear
    <3>2. (u + h) % s = (u + h) - s
      <4> DEFINE y == u + h
      <4>1. y \in Int /\ y - s \in 0 .. s - 1
        BY <1>1, <2>1
      <4> HIDE DEF y
      <4>2. y % s = y - s
        BY <1>1, <4>1, RemainderNear
      <4> QED
        BY <4>2 DEF y
    <3>3. u % s = u
      <4>1. u \in Int
        BY <2>1
      <4> HIDE DEF u
      <4> QED
        BY <1>1, <2>1, <4>1, RemainderNear
    <3> QED
      BY <2>1, <3>1, <3>2, <3>3
  <2>3. ~(u < h) /\ u - s = x
    BY <1>1, <1>4
  <2> HIDE DEF u
  <2>4. /\ Unsigned(x) \in Nat /\ Unsigned(x) < s /\ Signed(Unsigned(x)) = x
        /\ (Unsigned(x) + h) % s = x + h
        /\ x + h \in Nat /\ x + h < s
        /\ (x + h + h) % s = Unsigned(x)
    BY <1>1, <1>2, <2>1, <2>2, <2>3
  <2> QED
    BY <2>4 DEF h, s
<1> QED
  BY <1>3, <1>4

\* A text is bytes, and text.
LEMMA TextsAreBytes ==
  ASSUME NEW s \in Seq(TextBytes)
  PROVE  s \in Seq(Byte) /\ IsText(s)
<1>1. TextBytes \subseteq Byte
  BY ByteAssumption
<1>2. s \in Seq(Byte)
  BY <1>1, SeqMonotonic
<1>3. DOMAIN s = 1 .. Len(s) /\ \A i \in 1 .. Len(s) : s[i] \in TextBytes
  OBVIOUS
<1> QED
  BY <1>2, <1>3 DEF IsText

\* What Encoded holds.
LEMMA EncodedIs ==
  \A bytes : Encoded(bytes).ok = TRUE /\ Encoded(bytes).bytes = bytes /\ Encoded(bytes) # Broken
  BY DEF Encoded, Broken

\* One byte in front.
LEMMA ByteInFront ==
  ASSUME NEW b \in Byte, NEW rest \in Seq(Byte)
  PROVE  /\ <<b>> \in Seq(Byte) /\ <<b>> \o rest \in Seq(Byte) /\ <<b>> \o rest # <<>>
         /\ (<<b>> \o rest)[1] = b /\ Beyond(<<b>> \o rest, 1) = rest
         /\ Len(<<b>> \o rest) = 1 + Len(rest)
<1> DEFINE a == <<b>>
<1>1. a \in Seq(Byte) /\ Len(a) = 1 /\ a[1] = b
  OBVIOUS
<1>2. Len(rest) \in Nat /\ Len(<<>>) = 0
  OBVIOUS
<1> HIDE DEF a
<1>3. a \o rest \in Seq(Byte) /\ Len(a \o rest) = 1 + Len(rest) /\ Beyond(a \o rest, 1) = rest
  BY <1>1, TakenApart
<1>4. (a \o rest)[1] = a[1]
  BY <1>1, <1>2, ConcatProperties
<1>5. a \o rest # <<>>
  BY <1>2, <1>3
<1> QED
  BY <1>1, <1>3, <1>4, <1>5 DEF a

\* A value is written, and read back, whatever follows.
LEMMA ValueReadsBack ==
  ASSUME NEW v, v = Val(v.t, v.x), IsValue(v), NEW rest \in Seq(Byte),
         v.t \in {"text", "bytes"} => Fits(Len(v.x), LenBytes)
  PROVE  /\ EncodeValue(v, v.t).ok /\ EncodeValue(v, v.t).bytes \in Seq(Byte)
         /\ DecodeValue(EncodeValue(v, v.t).bytes \o rest, v.t) = Decoded(v, rest)
<1> DEFINE e == EncodeValue(v, v.t)
           data == e.bytes \o rest
<1>1. CASE v.t = "integer" /\ v.x \in Integer
  <2> DEFINE n == Unsigned(v.x)
             w == BigEndian(n, IntBytes)
  <2>1. IntBytes \in Nat /\ n \in Nat /\ n < Power(ByteSpace, IntBytes) /\ Signed(n) = v.x
    BY <1>1, RowCodecAssumption, IntegersAre DEF IntSpace
  <2>2. e = Encoded(w)
    BY <1>1 DEF EncodeValue
  <2> HIDE DEF n
  <2>3. w \in Seq(Byte) /\ Len(w) = IntBytes /\ FromBigEndian(w) = n
    BY <2>1, WordIs, BigReadsBack
  <2> HIDE DEF w, e
  <2>4. e.ok /\ e.bytes = w
    BY <2>2, EncodedIs
  <2> DEFINE d == w \o rest
  <2>5. d \in Seq(Byte) /\ Len(d) = IntBytes + Len(rest) /\ FirstBytes(d, IntBytes) = w /\ Beyond(d, IntBytes) = rest
    BY <2>3, TakenApart
  <2>6. Len(rest) \in Nat
    OBVIOUS
  <2> HIDE DEF d
  <2>7. ~(Len(d) < IntBytes)
    BY <2>1, <2>5, <2>6
  <2>8. DecodeValue(d, "integer") = Decoded(Val("integer", v.x), rest)
    BY <2>1, <2>3, <2>5, <2>7 DEF DecodeValue
  <2> QED
    BY <1>1, <2>3, <2>4, <2>8 DEF e, d
<1>2. CASE v.t = "boolean" /\ v.x \in BOOLEAN
  <2> DEFINE b == IF v.x THEN 1 ELSE 0
             w == <<b>>
  <2>1. e = Encoded(w)
    BY <1>2 DEF EncodeValue
  <2>2. b \in Byte /\ (b # 0) = v.x
    BY <1>2, ByteSpaceIs
  <2> HIDE DEF b
  <2> DEFINE d == w \o rest
  <2>3. w \in Seq(Byte) /\ d \in Seq(Byte) /\ d # <<>> /\ d[1] = b /\ Beyond(d, 1) = rest
    BY <2>2, ByteInFront
  <2> HIDE DEF w, e, d
  <2>4. e.ok /\ e.bytes = w
    BY <2>1, EncodedIs
  <2>5. DecodeValue(d, "boolean") = Decoded(Val("boolean", d[1] # 0), rest)
    BY <2>3 DEF DecodeValue
  <2>6. (d[1] # 0) = v.x
    BY <2>2, <2>3
  <2>7. DecodeValue(d, "boolean") = Decoded(Val("boolean", v.x), rest)
    BY <2>5, <2>6
  <2> QED
    BY <1>2, <2>3, <2>4, <2>7 DEF e, d
<1>3. CASE (v.t = "text" /\ v.x \in Seq(TextBytes)) \/ (v.t = "bytes" /\ v.x \in Seq(Byte))
  <2> DEFINE w == Prefixed(v.x, LenBytes)
  <2>1. v.x \in Seq(Byte) /\ (v.t = "text" => IsText(v.x)) /\ Fits(Len(v.x), LenBytes)
        /\ v.t # "integer" /\ v.t # "boolean"
    BY <1>3, TextsAreBytes
  <2>2. LenBytes \in Nat
    BY RowCodecAssumption
  <2>3. e = Encoded(w)
    BY <2>1 DEF EncodeValue
  <2>4. w \in Seq(Byte) /\ TakePrefixed(w \o rest, LenBytes) = Decoded(v.x, rest)
    BY <2>1, <2>2, PrefixedReadsBack
  <2> HIDE DEF w, e
  <2>5. e.ok /\ e.bytes = w
    BY <2>3, EncodedIs
  <2> DEFINE d == w \o rest
  <2> HIDE DEF d
  <2>6. TakePrefixed(d, LenBytes) = Decoded(v.x, rest)
    BY <2>4 DEF d
  <2>7. DecodeString(d, v.t) = Decoded(Val(v.t, v.x), rest)
    BY <2>1, <2>6, ResultIs DEF DecodeString
  <2>8. DecodeValue(d, v.t) = DecodeString(d, v.t)
    BY <2>1 DEF DecodeValue
  <2> QED
    BY <2>4, <2>5, <2>7, <2>8 DEF e, d
<1> QED
  BY <1>1, <1>2, <1>3 DEF IsValue

\* The result of reading a value, and that more bytes behind do not change it.
LEMMA DecodeValueIs ==
  ASSUME NEW data \in Seq(Byte), NEW more \in Seq(Byte), NEW ty
  PROVE  /\ IsResult(DecodeValue(data, ty))
         /\ Longer(DecodeValue(data, ty), DecodeValue(data \o more, ty), more)
<1> DEFINE r == DecodeValue(data, ty)
           long == data \o more
           q == DecodeValue(long, ty)
<1>1. long \in Seq(Byte) /\ Len(long) = Len(data) + Len(more) /\ Len(more) \in Nat /\ Len(data) \in Nat
  BY ConcatProperties
<1>2. ASSUME r = Broken PROVE IsResult(r) /\ Longer(r, q, more)
  <2> HIDE DEF r, q
  <2> QED
    BY <1>2, BrokenIsResult, ResultIs DEF Longer
<1>3. ASSUME NEW v, NEW n \in Nat, n <= Len(data), r = Decoded(v, Beyond(data, n)), q = Decoded(v, Beyond(long, n))
      PROVE  IsResult(r) /\ Longer(r, q, more)
  <2>1. Beyond(data, n) \in Seq(Byte) /\ Beyond(long, n) = Beyond(data, n) \o more
    BY <1>3, CutInTwo, CutLonger
  <2> HIDE DEF r, q
  <2> QED
    BY <1>3, <2>1, DecodedIsResult, ResultIs DEF Longer
<1>4. CASE ty = "integer"
  <2> DEFINE n == IntBytes
  <2>1. n \in Nat
    BY RowCodecAssumption
  <2>2. CASE Len(data) < n
    <3>1. r = Broken
      BY <1>4, <2>2 DEF DecodeValue
    <3> QED
      BY <1>2, <3>1
  <2>3. CASE ~(Len(data) < n)
    <3>1. n <= Len(data) /\ ~(Len(long) < n)
      BY <1>1, <2>1, <2>3
    <3>2. FirstBytes(long, n) = FirstBytes(data, n)
      BY <2>1, <3>1, CutLonger
    <3> DEFINE v == Val("integer", Signed(FromBigEndian(FirstBytes(data, n))))
    <3>3. r = Decoded(v, Beyond(data, n))
      BY <1>4, <2>3 DEF DecodeValue
    <3> HIDE DEF long
    <3>4. q = Decoded(v, Beyond(long, n))
      BY <1>4, <3>1, <3>2 DEF DecodeValue
    <3> HIDE DEF v, r, q, n
    <3> QED
      BY <1>3, <2>1, <3>1, <3>3, <3>4 DEF r, q, long
  <2> QED
    BY <2>2, <2>3
<1>5. CASE ty = "boolean"
  <2>1. CASE data = <<>>
    <3>1. r = Broken
      BY <1>5, <2>1 DEF DecodeValue
    <3> QED
      BY <1>2, <3>1
  <2>2. CASE data # <<>>
    <3>1. Len(data) # 0 /\ Len(<<>>) = 0
      BY <2>2
    <3>2. 1 <= Len(data) /\ Len(long) # 0 /\ 1 \in 1 .. Len(data) + Len(more)
      BY <1>1, <3>1
    <3>3. long[1] = data[1]
      BY <1>1, <3>2, ConcatProperties
    <3> HIDE DEF long
    <3>4. long # <<>>
      BY <3>1, <3>2
    <3> DEFINE v == Val("boolean", data[1] # 0)
    <3>5. r = Decoded(v, Beyond(data, 1))
      BY <1>5, <2>2 DEF DecodeValue
    <3>6. q = Decoded(v, Beyond(long, 1))
      BY <1>5, <3>3, <3>4 DEF DecodeValue
    <3> HIDE DEF v, r, q
    <3> QED
      BY <1>3, <3>2, <3>5, <3>6 DEF r, q, long
  <2> QED
    BY <2>1, <2>2
<1>6. CASE ty # "integer" /\ ty # "boolean"
  <2> DEFINE t == TakePrefixed(data, LenBytes)
             u == TakePrefixed(long, LenBytes)
  <2>1. LenBytes \in Nat
    BY RowCodecAssumption
  <2>2. IsResult(t) /\ Longer(t, u, more)
    BY <2>1, TakenIs
  <2>3. r = IF t.ok /\ (ty = "text" => IsText(t.v)) THEN Decoded(Val(ty, t.v), t.rest) ELSE Broken
    BY <1>6 DEF DecodeValue, DecodeString
  <2>4. q = IF u.ok /\ (ty = "text" => IsText(u.v)) THEN Decoded(Val(ty, u.v), u.rest) ELSE Broken
    BY <1>6 DEF DecodeValue, DecodeString
  <2> HIDE DEF t, u, r, q, long
  <2>5. CASE t.ok /\ (ty = "text" => IsText(t.v))
    <3>1. u = Decoded(t.v, t.rest \o more) /\ t.rest \in Seq(Byte)
      BY <2>2, <2>5, ResultSplits DEF Longer
    <3>2. q = Decoded(Val(ty, t.v), t.rest \o more)
      BY <2>4, <2>5, <3>1, ResultIs
    <3>3. r = Decoded(Val(ty, t.v), t.rest)
      BY <2>3, <2>5
    <3>4. IsResult(r) /\ Longer(r, q, more)
      BY <3>1, <3>2, <3>3, DecodedIsResult, ResultIs DEF Longer
    <3> QED
      BY <3>4 DEF r, q, long
  <2>6. CASE ~(t.ok /\ (ty = "text" => IsText(t.v)))
    <3>1. r = Broken
      BY <2>3, <2>6
    <3> QED
      BY <1>2, <3>1 DEF r, q, long
  <2> QED
    BY <2>5, <2>6
<1> QED
  BY <1>4, <1>5, <1>6

-----------------------------------------------------------------------------
(* The bitmap of NULLs.                                                    *)

\* The quotient of a number that is no less than a multiple.
LEMMA QuotientAtLeast ==
  ASSUME NEW x \in Nat, NEW b \in Nat \ {0}, NEW p \in Nat, b * p <= x
  PROVE  p <= x \div b
<1> DEFINE d == x \div b
           r == x % b
<1>1. d \in Nat /\ r \in Nat /\ r < b /\ x = b * d + r
  OBVIOUS
<1> HIDE DEF d, r
<1>2. CASE p <= d
  BY <1>2 DEF d
<1>3. CASE ~(p <= d)
  <2>1. PICK e \in Nat : p = d + 1 + e
    <3>1. p - (d + 1) \in Nat /\ p = d + 1 + (p - (d + 1))
      BY <1>1, <1>3
    <3> QED
      BY <3>1
  <2>2. b * p = b * d + b + b * e
    BY <1>1, <2>1
  <2>3. b * d \in Nat /\ b * e \in Nat
    BY <1>1, <2>1
  <2> QED
    BY <1>1, <2>2, <2>3
<1> QED
  BY <1>2, <1>3

\* The powers of two.
LEMMA TwoPowers ==
  /\ Power(2, 0) = 1
  /\ \A n \in Nat : Power(2, n) \in Nat \ {0} /\ Power(2, n + 1) = 2 * Power(2, n)
<1>1. 2 \in Nat \ {0}
  OBVIOUS
<1> QED
  BY <1>1, PowerIs

\* A power of two is an even multiple of every lower one.
LEMMA LowerPowers ==
  ASSUME NEW b \in Nat, NEW k \in 0 .. b - 1
  PROVE  \E q \in Nat : Power(2, b) = Power(2, k) * (2 * q)
<1> DEFINE p == Power(2, k)
           Even(n) == \E q \in Nat : Power(2, n) = p * (2 * q)
           H == {d \in Nat : Even(k + 1 + d)}
<1>1. p \in Nat /\ Power(2, k + 1) = 2 * p
  BY TwoPowers
<1> HIDE DEF p
<1>2. 0 \in H
  <2>1. Power(2, k + 1) = p * (2 * 1) /\ k + 1 + 0 = k + 1
    BY <1>1
  <2>2. Even(k + 1)
    BY <2>1
  <2> HIDE DEF Even
  <2> QED
    BY <2>1, <2>2
<1>3. ASSUME NEW d \in Nat, d \in H PROVE d + 1 \in H
  <2> DEFINE n == k + 1 + d
  <2>1. n \in Nat /\ k + 1 + (d + 1) = n + 1
    OBVIOUS
  <2>2. PICK q \in Nat : Power(2, n) = p * (2 * q)
    BY <1>3
  <2> HIDE DEF n
  <2>3. Power(2, n + 1) = 2 * (p * (2 * q))
    BY <2>1, <2>2, TwoPowers
  <2>4. 2 * (p * (2 * q)) = p * (2 * (2 * q)) /\ 2 * q \in Nat
    BY <1>1
  <2>5. Even(n + 1)
    BY <2>3, <2>4
  <2> HIDE DEF Even
  <2>6. Even(k + 1 + (d + 1))
    BY <2>1, <2>5
  <2> QED
    BY <2>6
<1> HIDE DEF H
<1>4. \A d \in Nat : d \in H
  BY <1>2, <1>3, NatSetInduction
<1> DEFINE d == b - (k + 1)
<1>5. d \in Nat /\ k + 1 + d = b
  OBVIOUS
<1> HIDE DEF d
<1>6. Even(b)
  BY <1>4, <1>5 DEF H
<1> QED
  BY <1>6 DEF p

\* An even multiple of a number leaves the bit at that number.
LEMMA BitStays ==
  ASSUME NEW w \in Nat, NEW p \in Nat \ {0}, NEW q \in Nat
  PROVE  ((w + p * (2 * q)) \div p) % 2 = (w \div p) % 2
<1> DEFINE d == w \div p
           r == w % p
           e == d + 2 * q
<1>1. d \in Nat /\ r \in 0 .. p - 1 /\ w = p * d + r
  OBVIOUS
<1> HIDE DEF d, r
<1>2. e \in Int /\ e % 2 = d % 2 /\ p * e = p * d + p * (2 * q)
  BY <1>1
<1> HIDE DEF e
<1>3. w + p * (2 * q) = p * e + r
  <2> DEFINE x == p * (2 * q)
             y == p * d
  <2>1. x \in Nat /\ y \in Nat
    BY <1>1
  <2>2. w = y + r /\ p * e = y + x
    BY <1>1, <1>2
  <2> HIDE DEF x, y
  <2>3. w + x = p * e + r
    BY <1>1, <2>1, <2>2
  <2> QED
    BY <2>3 DEF x
<1>4. (p * e + r) \div p = e
  BY <1>1, <1>2, RemainderIs
<1> QED
  BY <1>2, <1>3, <1>4 DEF d

\* The sums of the weights of the first bits.
AreWeights(w, bits) ==
  /\ w \in [0 .. ByteBits -> Nat] /\ w[0] = 0
  /\ \A b \in 1 .. ByteBits : w[b] = w[b - 1] + (IF b - 1 \in bits THEN Power(2, b - 1) ELSE 0)

\* Weight is the last of them.
LEMMA WeightsAre ==
  ASSUME NEW bits
  PROVE  \E w : AreWeights(w, bits) /\ Weight(bits) = w[ByteBits]
<1> DEFINE m == ByteBits
           Step(x, i) == x + (IF i - 1 \in bits THEN Power(2, i - 1) ELSE 0)
           IsUpTo(f, k) == f = [i \in 0 .. k |-> IF i = 0 THEN 0 ELSE Step(f[i - 1], i)]
           u == CHOOSE f : IsUpTo(f, m)
<1>0. m \in Nat
  BY RowCodecAssumption
<1>1. Weight(bits) = u[m]
  BY DEF Weight
<1> DEFINE Has(k) == \E f : IsUpTo(f, k)
           H == {k \in 0 .. m : Has(k)}
<1> HIDE DEF u, m, Step, IsUpTo, Has
<1>2. 0 \in H
  <2>1. IsUpTo([i \in 0 .. 0 |-> 0], 0)
    BY DEF IsUpTo
  <2>2. Has(0)
    BY <2>1 DEF Has
  <2> QED
    BY <1>0, <2>2
<1>3. ASSUME NEW k \in 1 .. m, k - 1 \in H PROVE k \in H
  <2>1. PICK f : IsUpTo(f, k - 1)
    BY <1>3 DEF Has
  <2> DEFINE g == [i \in 0 .. k |-> IF i = k THEN Step(f[k - 1], k) ELSE f[i]]
  <2>2. \A i \in 0 .. k : i # k => i \in 0 .. k - 1
    BY <1>0
  <2>3. \A i \in 0 .. k : i # 0 => i - 1 \in 0 .. k /\ i - 1 # k
    BY <1>0
  <2>4. \A i \in 0 .. k - 1 : f[i] = IF i = 0 THEN 0 ELSE Step(f[i - 1], i)
    BY <2>1 DEF IsUpTo
  <2>5. \A i \in 0 .. k : g[i] = IF i = 0 THEN 0 ELSE Step(g[i - 1], i)
    BY <1>0, <2>2, <2>3, <2>4
  <2>6. g = [i \in 0 .. k |-> g[i]]
    OBVIOUS
  <2> HIDE DEF g
  <2>7. IsUpTo(g, k)
    BY <2>5, <2>6 DEF IsUpTo
  <2>8. Has(k)
    BY <2>7 DEF Has
  <2>9. k \in 0 .. m
    BY <1>0
  <2> QED
    BY <2>8, <2>9
<1> HIDE DEF H
<1>4. \A k \in 0 .. m : k \in H
  BY <1>0, <1>2, <1>3, IntervalInduction
<1>5. m \in 0 .. m
  BY <1>0
<1>6. Has(m)
  BY <1>4, <1>5 DEF H
<1>7. IsUpTo(u, m)
  BY <1>6 DEF Has, u
<1>8. u = [i \in 0 .. m |-> u[i]]
  BY <1>7 DEF IsUpTo
<1>9. u[0] = 0
  BY <1>0, <1>7 DEF IsUpTo
<1>10. \A i \in 1 .. m : u[i] = Step(u[i - 1], i)
  BY <1>0, <1>7 DEF IsUpTo
<1> DEFINE G == {i \in 0 .. m : u[i] \in Nat}
<1>11. 0 \in G
  BY <1>0, <1>9
<1>12. ASSUME NEW i \in 1 .. m, i - 1 \in G PROVE i \in G
  <2>1. u[i - 1] \in Nat /\ i \in 0 .. m
    BY <1>0, <1>12
  <2>2. u[i] = u[i - 1] + (IF i - 1 \in bits THEN Power(2, i - 1) ELSE 0)
    BY <1>10 DEF Step
  <2>3. Power(2, i - 1) \in Nat
    <3>1. i - 1 \in Nat
      BY <1>0
    <3> QED
      BY <3>1, TwoPowers
  <2> QED
    BY <2>1, <2>2, <2>3
<1> HIDE DEF G
<1>13. \A i \in 0 .. m : i \in G
  BY <1>0, <1>11, <1>12, IntervalInduction
<1>14. u \in [0 .. m -> Nat]
  BY <1>8, <1>13 DEF G
<1>15. \A i \in 1 .. m : u[i] = u[i - 1] + (IF i - 1 \in bits THEN Power(2, i - 1) ELSE 0)
  BY <1>10 DEF Step
<1>16. AreWeights(u, bits)
  BY <1>9, <1>14, <1>15 DEF AreWeights, m
<1> QED
  BY <1>1, <1>16 DEF m

\* The bits of a sum of weights are those that were summed up.
LEMMA BitsAre ==
  ASSUME NEW bits
  PROVE  /\ Weight(bits) \in Byte
         /\ \A k \in 0 .. ByteBits - 1 : (Weight(bits) \div Power(2, k)) % 2 = 1 <=> k \in bits
<1>1. ByteBits \in Nat /\ ByteSpace = Power(2, ByteBits)
  BY RowCodecAssumption
<1>2. PICK w : AreWeights(w, bits) /\ Weight(bits) = w[ByteBits]
  BY WeightsAre
<1> DEFINE P(k) == Power(2, k)
           Bit(x, k) == (x \div P(k)) % 2 = 1
           Good(b) == w[b] < P(b) /\ \A k \in 0 .. b - 1 : Bit(w[b], k) <=> k \in bits
           H == {b \in 0 .. ByteBits : Good(b)}
<1>3. 0 \in H
  <2>1. w[0] = 0 /\ P(0) = 1 /\ 0 .. 0 - 1 = {} /\ 0 \in 0 .. ByteBits
    BY <1>1, <1>2, TwoPowers DEF AreWeights
  <2> HIDE DEF P
  <2>2. Good(0)
    BY <2>1
  <2> HIDE DEF Good
  <2> QED
    BY <2>1, <2>2
<1>4. ASSUME NEW b \in 1 .. ByteBits, b - 1 \in H PROVE b \in H
  <2> DEFINE c == b - 1
             v == w[c]
             p == P(c)
  <2>1. c \in Nat /\ b = c + 1 /\ c \in 0 .. ByteBits /\ b \in 0 .. ByteBits
    BY <1>1
  <2>2. v \in Nat /\ w[b] = v + (IF c \in bits THEN P(c) ELSE 0)
    BY <1>2, <2>1 DEF AreWeights
  <2>3. Good(c)
    BY <1>4
  <2> HIDE DEF c
  <2>4. p \in Nat \ {0} /\ P(b) = 2 * p
    BY <2>1, TwoPowers
  <2>5. v < p
    BY <2>3
  <2> HIDE DEF v, p
  <2>6. w[b] = v + (IF c \in bits THEN p ELSE 0)
    BY <2>2 DEF p
  <2> HIDE DEF P
  <2>7. w[b] < P(b)
    BY <2>2, <2>4, <2>5, <2>6
  <2>8. Bit(w[b], c) <=> c \in bits
    <3>1. CASE c \in bits
      <4>1. w[b] = p * 1 + v /\ v \in 0 .. p - 1
        BY <2>2, <2>4, <2>5, <2>6, <3>1
      <4>2. (p * 1 + v) \div p = 1
        BY <2>2, <2>4, <2>5
      <4>3. w[b] \div p = 1
        BY <4>1, <4>2
      <4>4. Bit(w[b], c)
        BY <4>3 DEF p
      <4> QED
        BY <3>1, <4>4
    <3>2. CASE c \notin bits
      <4>1. w[b] = v
        BY <2>2, <2>6, <3>2
      <4>2. v \div p = 0
        BY <2>2, <2>4, <2>5
      <4>3. w[b] \div p = 0
        BY <4>1, <4>2
      <4>4. ~Bit(w[b], c)
        BY <4>3 DEF p
      <4> QED
        BY <3>2, <4>4
    <3> QED
      BY <3>1, <3>2
  <2>9. ASSUME NEW k \in 0 .. c - 1 PROVE Bit(w[b], k) <=> k \in bits
    <3>1. Bit(v, k) <=> k \in bits
      BY <2>3 DEF v
    <3>2. PICK q \in Nat : p = P(k) * (2 * q)
      BY <2>1, LowerPowers DEF p, P
    <3>3. P(k) \in Nat \ {0}
      <4>1. k \in Nat
        BY <2>1
      <4> QED
        BY <4>1, TwoPowers DEF P
    <3>4. ((v + p) \div P(k)) % 2 = (v \div P(k)) % 2
      BY <2>2, <3>2, <3>3, BitStays
    <3>5. w[b] = v \/ w[b] = v + p
      BY <2>2, <2>6
    <3> QED
      BY <3>1, <3>4, <3>5
  <2>10. \A k \in 0 .. b - 1 : k = c \/ k \in 0 .. c - 1
    BY <2>1
  <2> HIDE DEF Bit
  <2>11. Good(b)
    BY <2>7, <2>8, <2>9, <2>10
  <2> HIDE DEF Good
  <2> QED
    BY <2>1, <2>11
<1> HIDE DEF H
<1>5. \A b \in 0 .. ByteBits : b \in H
  BY <1>1, <1>3, <1>4, IntervalInduction
<1>6. ByteBits \in 0 .. ByteBits
  BY <1>1
<1>7. Good(ByteBits)
  BY <1>5, <1>6 DEF H
<1>8. Weight(bits) \in Byte
  <2>1. w[ByteBits] \in Nat /\ w[ByteBits] < ByteSpace /\ ByteSpace \in Nat
    BY <1>1, <1>2, <1>6, <1>7, ByteSpaceIs DEF AreWeights
  <2>2. w[ByteBits] \in 0 .. ByteSpace - 1
    BY <2>1
  <2> QED
    BY <1>2, <2>2 DEF Byte
<1> QED
  BY <1>2, <1>7, <1>8

\* A byte has at least one bit.
LEMMA ByteBitsIs == ByteBits \in Nat \ {0}
<1>1. ByteBits \in Nat /\ ByteSpace = Power(2, ByteBits) /\ ByteSpace > 2
  BY RowCodecAssumption, ByteSpaceIs
<1> QED
  BY <1>1, TwoPowers

\* The bitmap is bytes, and its bits are the columns that are NULL.
LEMMA NullsAreRead ==
  ASSUME NEW n \in Nat, NEW nulls
  PROVE  /\ BitmapLen(n) \in Nat
         /\ Bitmap(nulls, n) \in Seq(Byte) /\ Len(Bitmap(nulls, n)) = BitmapLen(n)
         /\ \A i \in 1 .. n : IsNullAt(Bitmap(nulls, n), i) <=> i \in nulls
<1> DEFINE k == BitmapLen(n)
           m == Bitmap(nulls, n)
           Bits(j) == {b \in 0 .. ByteBits - 1 : (j - 1) * ByteBits + b + 1 \in nulls}
<1>1. ByteBits \in Nat \ {0}
  BY ByteBitsIs
<1>2. k = (n + ByteBits - 1) \div ByteBits
  BY DEF BitmapLen
<1>3. k \in Nat
  <2> DEFINE x == n + ByteBits - 1
  <2>1. x \in Nat
    BY <1>1
  <2> HIDE DEF x
  <2>2. x \div ByteBits \in Nat
    BY <1>1, <2>1
  <2> QED
    BY <1>2, <2>2 DEF x
<1>4. m = [j \in 1 .. k |-> Weight(Bits(j))]
  BY DEF Bitmap
<1> HIDE DEF k, m, Bits
<1>5. m \in Seq(Byte) /\ Len(m) = k
  <2>1. \A j \in 1 .. k : Weight(Bits(j)) \in Byte
    BY BitsAre
  <2> QED
    BY <1>3, <1>4, <2>1
<1>6. ASSUME NEW i \in 1 .. n PROVE IsNullAt(m, i) <=> i \in nulls
  <2> DEFINE c == (i - 1) \div ByteBits
             r == (i - 1) % ByteBits
             j == c + 1
  <2>1. c \in Nat /\ r \in 0 .. ByteBits - 1 /\ i - 1 = ByteBits * c + r
    <3> DEFINE x == i - 1
    <3>1. x \in Nat
      OBVIOUS
    <3> HIDE DEF x
    <3>2. x \div ByteBits \in Nat /\ x % ByteBits \in 0 .. ByteBits - 1
          /\ x = ByteBits * (x \div ByteBits) + (x % ByteBits)
      BY <1>1, <3>1
    <3> QED
      BY <3>2 DEF x
  <2> HIDE DEF c, r
  <2>2. j <= k
    <3> DEFINE x == n + ByteBits - 1
    <3>1. ByteBits * j = ByteBits * c + ByteBits /\ ByteBits * c \in Nat
      BY <1>1, <2>1
    <3>2. x \in Nat /\ ByteBits * j <= x /\ j \in Nat
      BY <1>1, <2>1, <3>1
    <3> HIDE DEF x, j
    <3>3. j <= x \div ByteBits
      BY <1>1, <3>2, QuotientAtLeast
    <3> QED
      BY <1>2, <3>3 DEF x
  <2>3. j \in 1 .. k /\ j - 1 = c
    BY <1>3, <2>1, <2>2
  <2> HIDE DEF j
  <2>4. m[j] = Weight(Bits(j))
    BY <1>4, <2>3
  <2>5. IsNullAt(m, i) <=> (m[c + 1] \div Power(2, r)) % 2 = 1
    BY DEF IsNullAt, c, r
  <2>6. IsNullAt(m, i) <=> r \in Bits(j)
    BY <2>1, <2>4, <2>5, BitsAre DEF j
  <2>7. (j - 1) * ByteBits + r + 1 = i
    BY <1>1, <2>1, <2>3
  <2> QED
    BY <2>1, <2>6, <2>7 DEF Bits
<1> QED
  BY <1>3, <1>5, <1>6 DEF k, m

-----------------------------------------------------------------------------
(* Rows.                                                                   *)

\* The fields of both results.
LEMMA LongerIs ==
  ASSUME NEW r, NEW q, NEW more, IsResult(r), Longer(r, q, more), r.ok
  PROVE  /\ r.rest \in Seq(Byte) /\ q.ok /\ q.v = r.v /\ q.rest = r.rest \o more
<1>1. r.rest \in Seq(Byte)
  BY ResultSplits
<1>2. q = Decoded(r.v, r.rest \o more)
  BY DEF Longer
<1> QED
  BY <1>1, <1>2, ResultIs

\* One turn more of a loop, over some bytes and over more.
LEMMA FurtherIs ==
  ASSUME NEW more, NEW done, NEW r, NEW longDone, NEW q,
         IsResult(done), Longer(done, longDone, more),
         done.ok => IsResult(r) /\ Longer(r, q, more)
  PROVE  IsResult(Further(done, r)) /\ Longer(Further(done, r), Further(longDone, q), more)
<1>1. CASE ~done.ok
  <2>1. Further(done, r) = done
    BY <1>1 DEF Further
  <2> QED
    BY <1>1, <2>1 DEF Longer
<1>2. CASE done.ok /\ ~r.ok
  <2>1. Further(done, r) = Broken
    BY <1>2 DEF Further
  <2> QED
    BY <2>1, BrokenIsResult, ResultIs DEF Longer
<1>3. CASE done.ok /\ r.ok
  <2>1. Further(done, r) = Decoded(Append(done.v, r.v), r.rest)
    BY <1>3 DEF Further
  <2>2. longDone = Decoded(done.v, done.rest \o more) /\ q = Decoded(r.v, r.rest \o more)
    BY <1>3 DEF Longer
  <2>3. longDone.ok /\ longDone.v = done.v /\ q.ok /\ q.v = r.v /\ q.rest = r.rest \o more
    BY <2>2, ResultIs
  <2>4. Further(longDone, q) = Decoded(Append(done.v, r.v), r.rest \o more)
    BY <2>3 DEF Further
  <2>5. r.rest \in Seq(Byte)
    BY <1>3, ResultSplits
  <2> QED
    BY <2>1, <2>4, <2>5, DecodedIsResult, ResultIs DEF Longer
<1> QED
  BY <1>1, <1>2, <1>3

\* What decode_row has read after every column.
AreReads(u, cols, data) ==
  /\ u[0] = Decoded(<<>>, Beyond(data, BitmapLen(Len(cols))))
  /\ \A i \in 1 .. Len(cols) :
       u[i] = ReadColumn(u[i - 1], cols[i], IsNullAt(FirstBytes(data, BitmapLen(Len(cols))), i))

\* decode_row returns the last of them, when the bitmap is there.
LEMMA ReadsAre ==
  ASSUME NEW cols, Len(cols) \in Nat, NEW data, ~(Len(data) < BitmapLen(Len(cols)))
  PROVE  \E u : AreReads(u, cols, data) /\ DecodeRow(cols, data) = u[Len(cols)]
<1> DEFINE m == Len(cols)
           start == Decoded(<<>>, Beyond(data, BitmapLen(Len(cols))))
           Step(x, i) == ReadColumn(x, cols[i], IsNullAt(FirstBytes(data, BitmapLen(Len(cols))), i))
           IsUpTo(f, k) == f = [i \in 0 .. k |-> IF i = 0 THEN start ELSE Step(f[i - 1], i)]
           u == CHOOSE f : IsUpTo(f, m)
<1>0. m \in Nat
  OBVIOUS
<1>1. DecodeRow(cols, data) = u[m]
  BY DEF DecodeRow
<1> DEFINE Has(k) == \E f : IsUpTo(f, k)
           H == {k \in 0 .. m : Has(k)}
<1> HIDE DEF u, m, start, Step, IsUpTo, Has
<1>2. 0 \in H
  <2>1. IsUpTo([i \in 0 .. 0 |-> start], 0)
    BY DEF IsUpTo
  <2>2. Has(0)
    BY <2>1 DEF Has
  <2> QED
    BY <1>0, <2>2
<1>3. ASSUME NEW k \in 1 .. m, k - 1 \in H PROVE k \in H
  <2>1. PICK f : IsUpTo(f, k - 1)
    BY <1>3 DEF Has
  <2> DEFINE g == [i \in 0 .. k |-> IF i = k THEN Step(f[k - 1], k) ELSE f[i]]
  <2>2. \A i \in 0 .. k : i # k => i \in 0 .. k - 1
    BY <1>0
  <2>3. \A i \in 0 .. k : i # 0 => i - 1 \in 0 .. k /\ i - 1 # k
    BY <1>0
  <2>4. \A i \in 0 .. k - 1 : f[i] = IF i = 0 THEN start ELSE Step(f[i - 1], i)
    BY <2>1 DEF IsUpTo
  <2>5. \A i \in 0 .. k : g[i] = IF i = 0 THEN start ELSE Step(g[i - 1], i)
    BY <1>0, <2>2, <2>3, <2>4
  <2>6. g = [i \in 0 .. k |-> g[i]]
    OBVIOUS
  <2> HIDE DEF g
  <2>7. IsUpTo(g, k)
    BY <2>5, <2>6 DEF IsUpTo
  <2>8. Has(k)
    BY <2>7 DEF Has
  <2>9. k \in 0 .. m
    BY <1>0
  <2> QED
    BY <2>8, <2>9
<1> HIDE DEF H
<1>4. \A k \in 0 .. m : k \in H
  BY <1>0, <1>2, <1>3, IntervalInduction
<1>5. m \in 0 .. m
  BY <1>0
<1>6. Has(m)
  BY <1>4, <1>5 DEF H
<1>7. IsUpTo(u, m)
  BY <1>6 DEF Has, u
<1>8. u = [i \in 0 .. m |-> u[i]]
  BY <1>7 DEF IsUpTo
<1>9. u[0] = start
  BY <1>0, <1>7 DEF IsUpTo
<1>10. \A i \in 1 .. m : u[i] = Step(u[i - 1], i)
  BY <1>0, <1>7 DEF IsUpTo
<1>11. AreReads(u, cols, data)
  BY <1>9, <1>10 DEF AreReads, start, Step, m
<1> QED
  BY <1>1, <1>11 DEF m

\* Its result, and that more bytes behind do not change it.
LEMMA DecodeRowIs ==
  ASSUME NEW cols, Len(cols) \in Nat, NEW data \in Seq(Byte), NEW more \in Seq(Byte)
  PROVE  /\ IsResult(DecodeRow(cols, data))
         /\ Longer(DecodeRow(cols, data), DecodeRow(cols, data \o more), more)
<1> DEFINE n == Len(cols)
           k == BitmapLen(n)
           long == data \o more
<1>1. k \in Nat
  BY NullsAreRead
<1>2. long \in Seq(Byte) /\ Len(long) = Len(data) + Len(more) /\ Len(more) \in Nat /\ Len(data) \in Nat
  BY ConcatProperties
<1>3. CASE Len(data) < k
  <2>1. DecodeRow(cols, data) = Broken
    BY <1>3 DEF DecodeRow
  <2> QED
    BY <2>1, BrokenIsResult, ResultIs DEF Longer
<1>4. CASE ~(Len(data) < k)
  <2>1. k <= Len(data) /\ ~(Len(long) < k)
    BY <1>1, <1>2, <1>4
  <2>2. FirstBytes(long, k) = FirstBytes(data, k) /\ Beyond(long, k) = Beyond(data, k) \o more
        /\ Beyond(data, k) \in Seq(Byte)
    BY <1>1, <2>1, CutLonger, CutInTwo
  <2>3. PICK u : AreReads(u, cols, data) /\ DecodeRow(cols, data) = u[n]
    BY <1>4, ReadsAre
  <2> HIDE DEF long
  <2>4. PICK w : AreReads(w, cols, long) /\ DecodeRow(cols, long) = w[n]
    BY <2>1, ReadsAre
  <2> DEFINE Good(i) == IsResult(u[i]) /\ Longer(u[i], w[i], more)
             H == {i \in 0 .. n : Good(i)}
  <2>5. 0 \in H
    <3>1. u[0] = Decoded(<<>>, Beyond(data, k)) /\ w[0] = Decoded(<<>>, Beyond(data, k) \o more)
      BY <2>2, <2>3, <2>4 DEF AreReads
    <3>2. Good(0)
      BY <2>2, <3>1, DecodedIsResult, ResultIs DEF Longer
    <3> HIDE DEF Good
    <3>3. 0 \in 0 .. n
      OBVIOUS
    <3> QED
      BY <3>2, <3>3
  <2>6. ASSUME NEW i \in 1 .. n, i - 1 \in H PROVE i \in H
    <3> DEFINE null == IsNullAt(FirstBytes(data, k), i)
               d == u[i - 1]
               e == w[i - 1]
               Read(x) == IF null THEN Decoded(NullValue, x) ELSE DecodeValue(x, cols[i].ty)
    <3>1. u[i] = ReadColumn(d, cols[i], null) /\ w[i] = ReadColumn(e, cols[i], null)
      BY <2>2, <2>3, <2>4 DEF AreReads
    <3>2. u[i] = Further(d, Read(d.rest)) /\ w[i] = Further(e, Read(e.rest))
      BY <3>1 DEF ReadColumn
    <3>3. IsResult(d) /\ Longer(d, e, more)
      BY <2>6
    <3> HIDE DEF d, e, null
    <3>4. ASSUME d.ok PROVE IsResult(Read(d.rest)) /\ Longer(Read(d.rest), Read(e.rest), more)
      <4>1. d.rest \in Seq(Byte) /\ e.rest = d.rest \o more
        BY <3>3, <3>4, LongerIs
      <4>2. CASE null
        <5> DEFINE x == d.rest
        <5>1. Read(x) = Decoded(NullValue, x) /\ Read(e.rest) = Decoded(NullValue, x \o more)
          BY <4>1, <4>2
        <5>2. x \in Seq(Byte)
          BY <4>1
        <5> HIDE DEF x, Read
        <5>3. IsResult(Read(x)) /\ Longer(Read(x), Read(e.rest), more)
          BY <5>1, <5>2, DecodedIsResult, ResultIs DEF Longer
        <5> QED
          BY <5>3 DEF x
      <4>3. CASE ~null
        BY <4>1, <4>3, DecodeValueIs
      <4> QED
        BY <4>2, <4>3
    <3> HIDE DEF Read
    <3>5. Good(i)
      BY <3>2, <3>3, <3>4, FurtherIs
    <3>6. i \in 0 .. n
      OBVIOUS
    <3> HIDE DEF Good
    <3> QED
      BY <3>5, <3>6
  <2> HIDE DEF H
  <2>7. \A i \in 0 .. n : i \in H
    BY <2>5, <2>6, IntervalInduction
  <2>8. n \in 0 .. n
    OBVIOUS
  <2>9. Good(n)
    BY <2>7, <2>8 DEF H
  <2> QED
    BY <2>3, <2>4, <2>9 DEF long
<1> QED
  BY <1>3, <1>4

\* A value that a column may hold.
IsRowValue(v, col) ==
  /\ v = Val(v.t, v.x)
  /\ \/ v = NullValue
     \/ v.t = col.ty /\ IsValue(v) /\ (v.t \in {"text", "bytes"} => Fits(Len(v.x), LenBytes))

\* A row that its table admits is written and read back; another one is not written.
LEMMA RowReadsBack ==
  ASSUME NEW T, NEW cols \in Seq(T), NEW V, NEW row \in Seq(V), Len(row) = Len(cols),
         \A i \in 1 .. Len(cols) : IsRowValue(row[i], cols[i]) /\ cols[i].ty # "null"
  PROVE  IF \A i \in 1 .. Len(cols) : row[i].t = "null" => cols[i].nullable
         THEN /\ EncodeRow(cols, row).ok /\ EncodeRow(cols, row).bytes \in Seq(Byte)
              /\ DecodeRow(cols, EncodeRow(cols, row).bytes) = Decoded(row, <<>>)
         ELSE ~EncodeRow(cols, row).ok
<1> DEFINE n == Len(cols)
           nulls == {i \in DOMAIN row : row[i].t = "null"}
           parts == [i \in DOMAIN row |-> IF i \in nulls THEN Encoded(<<>>) ELSE EncodeValue(row[i], cols[i].ty)]
           bytes == [i \in DOMAIN parts |-> parts[i].bytes]
           k == BitmapLen(n)
           map == Bitmap(nulls, n)
           Admits == \A i \in 1 .. n : row[i].t = "null" => cols[i].nullable
           e == EncodeRow(cols, row)
<1>1. n \in Nat /\ DOMAIN row = 1 .. n /\ row = [i \in 1 .. n |-> row[i]]
  OBVIOUS
<1>2. nulls = {i \in 1 .. n : row[i].t = "null"} /\ DOMAIN parts = 1 .. n /\ DOMAIN bytes = 1 .. n
      /\ \A i \in 1 .. n : bytes[i] = parts[i].bytes
  BY <1>1
<1>3. ASSUME NEW i \in 1 .. n
      PROVE  /\ parts[i].ok /\ bytes[i] \in Seq(Byte)
             /\ i \in nulls => row[i] = NullValue /\ bytes[i] = <<>>
             /\ i \notin nulls => \A rest \in Seq(Byte) : DecodeValue(bytes[i] \o rest, cols[i].ty) = Decoded(row[i], rest)
  <2> DEFINE v == row[i]
  <2>1. IsRowValue(v, cols[i]) /\ cols[i].ty # "null"
    OBVIOUS
  <2>2. NullValue.t = "null"
    BY DEF NullValue, Val
  <2>3. parts[i] = (IF i \in nulls THEN Encoded(<<>>) ELSE EncodeValue(v, cols[i].ty))
        /\ bytes[i] = parts[i].bytes /\ (i \in nulls <=> v.t = "null")
    BY <1>1, <1>2
  <2> HIDE DEF v, parts, bytes, nulls
  <2>4. CASE i \in nulls
    <3>1. parts[i] = Encoded(<<>>) /\ v = NullValue
      BY <2>1, <2>3, <2>4 DEF IsRowValue
    <3>2. <<>> \in Seq(Byte)
      OBVIOUS
    <3> QED
      BY <2>3, <2>4, <3>1, <3>2, EncodedIs DEF v
  <2>5. CASE i \notin nulls
    <3>1. v = Val(v.t, v.x) /\ v.t = cols[i].ty /\ IsValue(v) /\ (v.t \in {"text", "bytes"} => Fits(Len(v.x), LenBytes))
      BY <2>1, <2>2, <2>3, <2>5 DEF IsRowValue
    <3>2. parts[i] = EncodeValue(v, v.t)
      BY <2>3, <2>5, <3>1
    <3>3. \A rest \in Seq(Byte) :
             /\ EncodeValue(v, v.t).ok /\ EncodeValue(v, v.t).bytes \in Seq(Byte)
             /\ DecodeValue(EncodeValue(v, v.t).bytes \o rest, v.t) = Decoded(v, rest)
      BY <3>1, ValueReadsBack
    <3>4. <<>> \in Seq(Byte)
      OBVIOUS
    <3>5. EncodeValue(v, v.t).ok /\ EncodeValue(v, v.t).bytes \in Seq(Byte)
      BY <3>3, <3>4
    <3> QED
      BY <2>3, <2>5, <3>1, <3>2, <3>3, <3>5 DEF v
  <2> QED
    BY <2>4, <2>5
<1>4. bytes = [i \in 1 .. n |-> bytes[i]]
  BY <1>2
<1>5. EncodeRow(cols, row) =
        IF \/ Len(row) # Len(cols) \/ (\E i \in nulls : ~cols[i].nullable) \/ (\E i \in DOMAIN parts : ~parts[i].ok)
        THEN Broken ELSE Encoded(map \o FlattenSeq(bytes))
  BY DEF EncodeRow
<1> HIDE DEF parts, bytes, map, nulls, e
<1>6. bytes \in Seq(Seq(Byte)) /\ Len(bytes) = n
  BY <1>1, <1>3, <1>4
<1>7. CASE ~Admits
  <2>1. PICK i \in 1 .. n : row[i].t = "null" /\ ~cols[i].nullable
    BY <1>7
  <2>2. EncodeRow(cols, row) = Broken
    BY <1>2, <1>5, <2>1
  <2> QED
    BY <1>7, <2>2, ResultIs
<1>8. CASE Admits
  <2>1. PICK tail : AreTails(tail, bytes, Byte) /\ tail[0] = FlattenSeq(bytes)
    BY <1>6, TailsAre
  <2>2. \A i \in 0 .. n : tail[i] \in Seq(Byte)
    BY <1>6, <2>1 DEF AreTails
  <2>3. tail[n] = <<>> /\ \A i \in 1 .. n : tail[i - 1] = bytes[i] \o tail[i]
    BY <1>6, <2>1 DEF AreTails
  <2> DEFINE data == map \o tail[0]
  <2>4. e = Encoded(data)
    <3>1. ~(Len(row) # Len(cols) \/ (\E i \in nulls : ~cols[i].nullable) \/ (\E i \in DOMAIN parts : ~parts[i].ok))
      BY <1>2, <1>3, <1>8
    <3> QED
      BY <1>5, <2>1, <3>1 DEF e
  <2>5. k \in Nat /\ map \in Seq(Byte) /\ Len(map) = k /\ \A i \in 1 .. n : IsNullAt(map, i) <=> i \in nulls
    BY <1>1, NullsAreRead DEF map
  <2>6. tail[0] \in Seq(Byte)
    BY <1>1, <2>2
  <2>7. data \in Seq(Byte) /\ Len(data) = k + Len(tail[0]) /\ FirstBytes(data, k) = map /\ Beyond(data, k) = tail[0]
    <3> DEFINE first == tail[0]
    <3>1. first \in Seq(Byte)
      BY <2>6
    <3> HIDE DEF first, k
    <3>2. LET d == map \o first
          IN  d \in Seq(Byte) /\ Len(d) = k + Len(first) /\ FirstBytes(d, k) = map /\ Beyond(d, k) = first
      BY <2>5, <3>1, TakenApart
    <3> QED
      BY <3>2 DEF first
  <2> HIDE DEF data, k
  <2>8. ~(Len(data) < k)
    BY <2>5, <2>6, <2>7
  <2>9. PICK u : AreReads(u, cols, data) /\ DecodeRow(cols, data) = u[n]
    BY <1>1, <2>8, ReadsAre DEF k
  <2> DEFINE Read(i) == u[i] = Decoded(SubSeq(row, 1, i), tail[i])
             H == {i \in 0 .. n : Read(i)}
  <2>10. 0 \in H
    <3>1. u[0] = Decoded(<<>>, tail[0]) /\ SubSeq(row, 1, 0) = <<>>
      BY <2>7, <2>9 DEF AreReads, k
    <3>2. Read(0)
      BY <3>1
    <3> HIDE DEF Read
    <3> QED
      BY <1>1, <3>2
  <2>11. ASSUME NEW i \in 1 .. n, i - 1 \in H PROVE i \in H
    <3> DEFINE done == u[i - 1]
               so == SubSeq(row, 1, i - 1)
    <3>1. u[i] = ReadColumn(done, cols[i], IsNullAt(map, i))
      BY <2>7, <2>9 DEF AreReads, k
    <3>2. done = Decoded(so, tail[i - 1])
      BY <2>11
    <3>3. tail[i - 1] = bytes[i] \o tail[i] /\ tail[i] \in Seq(Byte) /\ i \in 0 .. n
      <4>1. i \in 0 .. n
        BY <1>1
      <4>2. tail[i] \in Seq(Byte)
        BY <2>2, <4>1
      <4>3. tail[i - 1] = bytes[i] \o tail[i]
        BY <2>3
      <4> QED
        BY <4>1, <4>2, <4>3
    <3>4. Append(so, row[i]) = SubSeq(row, 1, i)
      BY <1>1
    <3> HIDE DEF done, so, Read
    <3>5. done.ok = TRUE /\ done.v = so /\ done.rest = tail[i - 1]
      BY <3>2, ResultIs
    <3>6. (IF IsNullAt(map, i) THEN Decoded(NullValue, done.rest) ELSE DecodeValue(done.rest, cols[i].ty))
            = Decoded(row[i], tail[i])
      <4>1. CASE i \in nulls
        <5>1. row[i] = NullValue /\ bytes[i] = <<>> /\ IsNullAt(map, i)
          BY <1>3, <2>5, <4>1
        <5>2. done.rest = tail[i]
          BY <3>3, <3>5, <5>1, ConcatEmptySeq
        <5> QED
          BY <5>1, <5>2
      <4>2. CASE i \notin nulls
        BY <1>3, <2>5, <3>3, <3>5, <4>2
      <4> QED
        BY <4>1, <4>2
    <3>7. u[i] = Further(done, Decoded(row[i], tail[i]))
      BY <3>1, <3>6 DEF ReadColumn
    <3>8. u[i] = Decoded(Append(so, row[i]), tail[i])
      BY <3>5, <3>7, ResultIs DEF Further
    <3>9. Read(i)
      BY <3>4, <3>8 DEF Read
    <3> QED
      BY <3>3, <3>9
  <2> HIDE DEF H
  <2>12. \A i \in 0 .. n : i \in H
    BY <1>1, <2>10, <2>11, IntervalInduction
  <2>13. n \in 0 .. n
    BY <1>1
  <2>14. u[n] = Decoded(SubSeq(row, 1, n), <<>>)
    BY <2>3, <2>12, <2>13 DEF H
  <2>15. SubSeq(row, 1, n) = row
    BY <1>1
  <2>16. DecodeRow(cols, data) = Decoded(row, <<>>)
    BY <2>9, <2>14, <2>15
  <2>17. e.ok /\ e.bytes = data
    BY <2>4, EncodedIs
  <2> QED
    BY <1>8, <2>7, <2>16, <2>17 DEF e
<1> QED
  BY <1>7, <1>8

-----------------------------------------------------------------------------
(* Keys.                                                                   *)

\* A primary key is written, and read back from all that was written.
LEMMA KeyReadsBack ==
  ASSUME NEW v, v = Val(v.t, v.x), IsValue(v)
  PROVE  /\ EncodeKey(v, v.t).ok /\ EncodeKey(v, v.t).bytes \in Seq(Byte)
         /\ DecodeKey(EncodeKey(v, v.t).bytes, v.t) = Decoded(v, <<>>)
         /\ v.t = "integer" => v.x \in Integer /\ EncodeKey(v, v.t).bytes = BigEndian(v.x + Half, IntBytes)
         /\ v.t = "boolean" => v.x \in BOOLEAN /\ EncodeKey(v, v.t).bytes = <<IF v.x THEN 1 ELSE 0>>
         /\ v.t \notin {"integer", "boolean"} => v.x \in Seq(Byte) /\ EncodeKey(v, v.t).bytes = v.x
<1> DEFINE e == EncodeKey(v, v.t)
<1>1. CASE v.t = "integer" /\ v.x \in Integer
  <2> DEFINE n == v.x + Half
             w == BigEndian(n, IntBytes)
  <2>1. IntBytes \in Nat /\ n \in Nat /\ n < Power(ByteSpace, IntBytes) /\ Signed((n + Half) % IntSpace) = v.x
        /\ (Unsigned(v.x) + Half) % IntSpace = n
    BY <1>1, RowCodecAssumption, IntegersAre DEF IntSpace
  <2>2. e = Encoded(BigEndian((Unsigned(v.x) + Half) % IntSpace, IntBytes))
    BY <1>1 DEF EncodeKey
  <2>3. e = Encoded(w)
    BY <2>1, <2>2
  <2> HIDE DEF n
  <2>4. w \in Seq(Byte) /\ Len(w) = IntBytes /\ FromBigEndian(w) = n
    BY <2>1, WordIs, BigReadsBack
  <2> HIDE DEF w, e
  <2>5. e.ok /\ e.bytes = w
    BY <2>3, EncodedIs
  <2>6. DecodeKey(w, "integer") = Decoded(Val("integer", v.x), <<>>)
    BY <2>1, <2>4 DEF DecodeKey
  <2> QED
    BY <1>1, <2>4, <2>5, <2>6 DEF e, n, w
<1>2. CASE v.t = "boolean" /\ v.x \in BOOLEAN
  <2> DEFINE b == IF v.x THEN 1 ELSE 0
             w == <<b>>
  <2>1. e = Encoded(w)
    BY <1>2 DEF EncodeKey
  <2>2. b \in Byte /\ (b # 0) = v.x
    BY <1>2, ByteSpaceIs
  <2> HIDE DEF b
  <2>3. w \in Seq(Byte) /\ Len(w) = 1 /\ w[1] = b
    BY <2>2
  <2> HIDE DEF w, e
  <2>4. e.ok /\ e.bytes = w
    BY <2>1, EncodedIs
  <2>5. DecodeKey(w, "boolean") = Decoded(Val("boolean", w[1] # 0), <<>>)
    BY <2>3 DEF DecodeKey
  <2>6. (w[1] # 0) = v.x
    BY <2>2, <2>3
  <2>7. DecodeKey(w, "boolean") = Decoded(Val("boolean", v.x), <<>>)
    BY <2>5, <2>6
  <2> QED
    BY <1>2, <2>3, <2>4, <2>7 DEF e, b, w
<1>3. CASE (v.t = "text" /\ v.x \in Seq(TextBytes)) \/ (v.t = "bytes" /\ v.x \in Seq(Byte))
  <2>1. v.x \in Seq(Byte) /\ (v.t = "text" => IsText(v.x))
        /\ v.t # "integer" /\ v.t # "boolean" /\ v.t \in {"text", "bytes"}
    BY <1>3, TextsAreBytes
  <2>2. e = Encoded(v.x)
    BY <2>1 DEF EncodeKey
  <2>3. e.ok /\ e.bytes = v.x
    BY <2>2, EncodedIs
  <2>4. DecodeKey(v.x, v.t) = Decoded(Val(v.t, v.x), <<>>)
    BY <2>1 DEF DecodeKey
  <2> QED
    BY <2>1, <2>3, <2>4
<1> QED
  BY <1>1, <1>2, <1>3 DEF IsValue

\* The same bytes in front do not change the order.
LEMMA PrefixKeepsOrder ==
  ASSUME NEW p \in Seq(Byte), NEW a \in Seq(Byte), NEW b \in Seq(Byte)
  PROVE  BytesLess(a, b) <=> BytesLess(p \o a, p \o b)
<1> DEFINE s == p \o a
           t == p \o b
           l == Len(p)
           m == Len(a)
           n == Len(b)
           Upto(x, y, k) == \A i \in 1 .. k : x[i] = y[i]
           At(x, y, d, e, k) == \/ k = d /\ k < e
                                \/ k < d /\ k < e /\ x[k + 1] < y[k + 1]
<1>1. l \in Nat /\ m \in Nat /\ n \in Nat /\ Len(s) = l + m /\ Len(t) = l + n
  BY ConcatProperties
<1>2. \A i \in 1 .. l : s[i] = p[i] /\ t[i] = p[i]
  OBVIOUS
<1>3. (\A i \in 1 .. m : s[l + i] = a[i]) /\ (\A i \in 1 .. n : t[l + i] = b[i])
  OBVIOUS
<1>4. BytesLess(a, b) <=> \E k \in 0 .. m : k <= n /\ Upto(a, b, k) /\ At(a, b, m, n, k)
  BY DEF BytesLess
<1>5. BytesLess(s, t) <=> \E k \in 0 .. l + m : k <= l + n /\ Upto(s, t, k) /\ At(s, t, l + m, l + n, k)
  BY <1>1 DEF BytesLess
<1> HIDE DEF s, t, l, m, n
<1>6. ASSUME NEW k \in 0 .. m, k <= n
      PROVE  /\ Upto(a, b, k) <=> Upto(s, t, l + k)
             /\ At(a, b, m, n, k) <=> At(s, t, l + m, l + n, l + k)
  <2>1. ASSUME Upto(a, b, k), NEW i \in 1 .. l + k PROVE s[i] = t[i]
    <3>1. CASE i <= l
      BY <1>1, <1>2, <3>1
    <3>2. CASE ~(i <= l)
      <4> DEFINE j == i - l
      <4>1. j \in 1 .. k /\ j \in 1 .. m /\ j \in 1 .. n /\ i = l + j
        BY <1>1, <1>6, <3>2
      <4> HIDE DEF j
      <4> QED
        BY <1>3, <2>1, <4>1
    <3> QED
      BY <3>1, <3>2
  <2>2. ASSUME Upto(s, t, l + k), NEW i \in 1 .. k PROVE a[i] = b[i]
    <3>1. l + i \in 1 .. l + k /\ i \in 1 .. m /\ i \in 1 .. n
      BY <1>1, <1>6
    <3> QED
      BY <1>3, <2>2, <3>1
  <2>3. (k = m <=> l + k = l + m) /\ (k < m <=> l + k < l + m) /\ (k < n <=> l + k < l + n)
    BY <1>1, <1>6
  <2>4. ASSUME k < m, k < n PROVE a[k + 1] = s[(l + k) + 1] /\ b[k + 1] = t[(l + k) + 1]
    <3> DEFINE j == k + 1
    <3>1. j \in 1 .. m /\ j \in 1 .. n /\ (l + k) + 1 = l + j
      BY <1>1, <1>6, <2>4
    <3> HIDE DEF j
    <3>2. a[j] = s[l + j] /\ b[j] = t[l + j]
      BY <1>3, <3>1
    <3> QED
      BY <3>1, <3>2 DEF j
  <2> QED
    BY <2>1, <2>2, <2>3, <2>4
<1>7. ASSUME NEW k \in 0 .. l + m, k <= l + n, Upto(s, t, k), At(s, t, l + m, l + n, k)
      PROVE  k >= l
  <2>1. CASE k < l
    <3> DEFINE j == k + 1
    <3>1. j \in 1 .. l /\ k < l + m /\ k < l + n /\ k # l + m
      BY <1>1, <2>1
    <3>2. s[j] < t[j]
      BY <1>7, <3>1
    <3> HIDE DEF j
    <3>3. s[j] = p[j] /\ t[j] = p[j] /\ p[j] \in Byte
      BY <1>2, <3>1 DEF l
    <3>4. p[j] \in Int
      BY <3>3, ByteSpaceIs DEF Byte
    <3> QED
      BY <3>2, <3>3, <3>4
  <2> QED
    BY <1>1, <2>1
<1> HIDE DEF Upto, At
<1>8. ASSUME NEW k \in 0 .. m, k <= n, Upto(a, b, k), At(a, b, m, n, k) PROVE BytesLess(s, t)
  <2> DEFINE j == l + k
  <2>1. j \in 0 .. l + m /\ j <= l + n
    BY <1>1, <1>8
  <2>2. Upto(s, t, j) /\ At(s, t, l + m, l + n, j)
    BY <1>6, <1>8
  <2> HIDE DEF j
  <2> QED
    BY <1>5, <2>1, <2>2
<1>9. ASSUME NEW k \in 0 .. l + m, k <= l + n, Upto(s, t, k), At(s, t, l + m, l + n, k) PROVE BytesLess(a, b)
  <2> DEFINE j == k - l
  <2>1. j \in 0 .. m /\ j <= n /\ k = l + j
    <3>1. k >= l
      BY <1>7, <1>9
    <3> QED
      BY <1>1, <1>9, <3>1
  <2> HIDE DEF j
  <2>2. Upto(a, b, j) /\ At(a, b, m, n, j)
    BY <1>6, <1>9, <2>1
  <2> QED
    BY <1>4, <2>1, <2>2
<1> QED
  BY <1>4, <1>5, <1>8, <1>9 DEF s, t

\* One byte compares as it is.
LEMMA ByteOrder ==
  ASSUME NEW b \in Byte, NEW c \in Byte
  PROVE  BytesLess(<<b>>, <<c>>) <=> b < c
<1> DEFINE s == <<b>>
           t == <<c>>
<1>1. Len(s) = 1 /\ Len(t) = 1 /\ s[1] = b /\ t[1] = c
  OBVIOUS
<1> HIDE DEF s, t
<1>2. BytesLess(s, t) <=> \E n \in 0 .. 1 : /\ n <= 1 /\ \A i \in 1 .. n : s[i] = t[i]
                                            /\ \/ n = 1 /\ n < 1
                                               \/ n < 1 /\ n < 1 /\ s[n + 1] < t[n + 1]
  BY <1>1 DEF BytesLess
<1>3. ASSUME b < c PROVE BytesLess(s, t)
  <2>1. 0 \in 0 .. 1 /\ 0 <= 1 /\ 1 .. 0 = {} /\ 0 < 1 /\ 0 + 1 = 1
    OBVIOUS
  <2> QED
    BY <1>1, <1>2, <1>3, <2>1
<1>4. ASSUME BytesLess(s, t) PROVE b < c
  <2>1. PICK n \in 0 .. 1 : \/ n = 1 /\ n < 1
                            \/ n < 1 /\ n < 1 /\ s[n + 1] < t[n + 1]
    BY <1>2, <1>4
  <2>2. n = 0 /\ n + 1 = 1
    BY <2>1
  <2> QED
    BY <1>1, <2>1, <2>2
<1> QED
  BY <1>3, <1>4 DEF s, t

\* Primary keys of one type compare as their bytes do.
LEMMA KeysCompare ==
  ASSUME NEW v, v = Val(v.t, v.x), IsValue(v),
         NEW w, w = Val(w.t, w.x), IsValue(w), w.t = v.t
  PROVE  Less(v, w) <=> BytesLess(EncodeKey(v, v.t).bytes, EncodeKey(w, w.t).bytes)
<1> DEFINE a == EncodeKey(v, v.t).bytes
           b == EncodeKey(w, w.t).bytes
<1>1. /\ v.t = "integer" => v.x \in Integer /\ a = BigEndian(v.x + Half, IntBytes)
      /\ v.t = "boolean" => v.x \in BOOLEAN /\ a = <<IF v.x THEN 1 ELSE 0>>
      /\ v.t \notin {"integer", "boolean"} => v.x \in Seq(Byte) /\ a = v.x
  BY KeyReadsBack
<1>2. /\ w.t = "integer" => w.x \in Integer /\ b = BigEndian(w.x + Half, IntBytes)
      /\ w.t = "boolean" => w.x \in BOOLEAN /\ b = <<IF w.x THEN 1 ELSE 0>>
      /\ w.t \notin {"integer", "boolean"} => w.x \in Seq(Byte) /\ b = w.x
  BY KeyReadsBack
<1> HIDE DEF a, b
<1>3. CASE v.t = "integer"
  <2> DEFINE m == v.x + Half
             n == w.x + Half
  <2>1. v.x \in Integer /\ w.x \in Integer /\ a = BigEndian(m, IntBytes) /\ b = BigEndian(n, IntBytes)
    BY <1>1, <1>2, <1>3
  <2>2. m \in Nat /\ n \in Nat /\ m < IntSpace /\ n < IntSpace
    BY <2>1, IntegersAre
  <2>3. m < n <=> v.x < w.x
    BY <2>1, HalfIs DEF Integer
  <2> HIDE DEF m, n
  <2>4. IntBytes \in Nat
    BY RowCodecAssumption
  <2>5. m < n <=> BytesLess(BigEndian(m, IntBytes), BigEndian(n, IntBytes))
    BY <2>2, <2>4, WordsKeepOrder DEF IntSpace
  <2>6. Less(v, w) <=> v.x < w.x
    BY <1>3 DEF Less
  <2> QED
    BY <2>1, <2>3, <2>5, <2>6 DEF a, b
<1>4. CASE v.t = "boolean"
  <2> DEFINE c == IF v.x THEN 1 ELSE 0
             d == IF w.x THEN 1 ELSE 0
  <2>1. v.x \in BOOLEAN /\ w.x \in BOOLEAN /\ a = <<c>> /\ b = <<d>>
    BY <1>1, <1>2, <1>4
  <2>2. c \in Byte /\ d \in Byte /\ (c < d <=> ~v.x /\ w.x)
    BY <2>1, ByteSpaceIs
  <2> HIDE DEF c, d
  <2>3. BytesLess(<<c>>, <<d>>) <=> c < d
    BY <2>2, ByteOrder
  <2>4. Less(v, w) <=> ~v.x /\ w.x
    BY <1>4 DEF Less
  <2> QED
    BY <2>1, <2>2, <2>3, <2>4 DEF a, b
<1>5. CASE v.t \notin {"integer", "boolean"}
  <2>1. a = v.x /\ b = w.x
    BY <1>1, <1>2, <1>5
  <2>2. Less(v, w) <=> BytesLess(v.x, w.x)
    BY <1>5 DEF Less
  <2> QED
    BY <2>1, <2>2 DEF a, b
<1> QED
  BY <1>3, <1>4, <1>5

\* The prefix of a table's rows, and what a row key consists of.
LEMMA RowKeyIs ==
  ASSUME NEW id \in Ids, NEW v \in KeyValues
  PROVE  /\ RowKeyPrefixBytes(id) \in Seq(Byte) /\ Len(RowKeyPrefixBytes(id)) = 1 + IdBytes
         /\ EncodeKey(v, v.t).bytes \in Seq(Byte)
         /\ Key(id, v) = RowKeyPrefixBytes(id) \o EncodeKey(v, v.t).bytes
<1> DEFINE w == BigEndian(id, IdBytes)
           k == EncodeKey(v, v.t)
<1>1. id \in Nat /\ IdBytes \in Nat /\ v = Val(v.t, v.x) /\ IsValue(v) /\ 1 \in Byte
  BY CodecsAssumption, RowCodecAssumption, ByteSpaceIs
<1>2. w \in Seq(Byte) /\ Len(w) = IdBytes
  BY <1>1, WordIs
<1>3. RowKeyPrefixBytes(id) = <<1>> \o w
  BY DEF RowKeyPrefixBytes
<1> HIDE DEF w
<1>4. <<1>> \o w \in Seq(Byte) /\ Len(<<1>> \o w) = 1 + Len(w)
  BY <1>1, <1>2, ByteInFront
<1>5. k.ok /\ k.bytes \in Seq(Byte)
  BY <1>1, KeyReadsBack
<1>6. Key(id, v) = (IF k.ok THEN Encoded(RowKeyPrefixBytes(id) \o k.bytes) ELSE Broken).bytes
  BY DEF Key, RowKeyBytes
<1> HIDE DEF k
<1>7. Key(id, v) = RowKeyPrefixBytes(id) \o k.bytes
  BY <1>5, <1>6, EncodedIs
<1> QED
  BY <1>2, <1>3, <1>4, <1>5, <1>7 DEF k

\* No two tables have one prefix.
LEMMA PrefixesDiffer ==
  ASSUME NEW i \in Ids, NEW j \in Ids, RowKeyPrefixBytes(i) = RowKeyPrefixBytes(j)
  PROVE  i = j
<1> DEFINE a == BigEndian(i, IdBytes)
           b == BigEndian(j, IdBytes)
<1>1. /\ i \in Nat /\ j \in Nat /\ IdBytes \in Nat /\ 1 \in Byte
      /\ i < Power(ByteSpace, IdBytes) /\ j < Power(ByteSpace, IdBytes)
  BY CodecsAssumption, RowCodecAssumption, ByteSpaceIs DEF Fits
<1>2. a \in Seq(Byte) /\ b \in Seq(Byte) /\ FromBigEndian(a) = i /\ FromBigEndian(b) = j
  BY <1>1, WordIs, BigReadsBack
<1>3. <<1>> \o a = <<1>> \o b
  BY DEF RowKeyPrefixBytes
<1> HIDE DEF a, b
<1>4. Beyond(<<1>> \o a, 1) = a /\ Beyond(<<1>> \o b, 1) = b
  BY <1>1, <1>2, ByteInFront
<1> QED
  BY <1>2, <1>3, <1>4

\* A row key is split into its table id and its primary key.
LEMMA RowKeySplits ==
  ASSUME NEW id \in Ids, NEW v \in KeyValues
  PROVE  SplitRowKey(Key(id, v)) = Decoded(id, EncodeKey(v, v.t).bytes)
<1> DEFINE w == BigEndian(id, IdBytes)
           k == EncodeKey(v, v.t).bytes
           p == RowKeyPrefixBytes(id)
           key == p \o k
           tail == w \o k
<1>1. id \in Nat /\ IdBytes \in Nat /\ id < Power(ByteSpace, IdBytes) /\ 1 \in Byte
  BY CodecsAssumption, RowCodecAssumption, ByteSpaceIs DEF Fits
<1>2. w \in Seq(Byte) /\ Len(w) = IdBytes /\ FromBigEndian(w) = id
  BY <1>1, WordIs, BigReadsBack
<1>3. p = <<1>> \o w
  BY DEF RowKeyPrefixBytes
<1>4. p \in Seq(Byte) /\ Len(p) = 1 + IdBytes /\ k \in Seq(Byte) /\ Key(id, v) = key
  BY RowKeyIs
<1> HIDE DEF w, k, p
<1>5. tail \in Seq(Byte) /\ Len(tail) = IdBytes + Len(k) /\ FirstBytes(tail, IdBytes) = w
  BY <1>2, <1>4, TakenApart
<1>6. <<1>> \in Seq(Byte)
  BY <1>1
<1>7. key = <<1>> \o tail
  BY <1>2, <1>3, <1>4, <1>6, Associates, SMTT(30)
<1>8. Beyond(key, 1 + IdBytes) = k
  BY <1>4, TakenApart
<1> HIDE DEF key, tail
<1>9. key \in Seq(Byte) /\ key[1] = 1 /\ Beyond(key, 1) = tail /\ Len(key) = 1 + Len(tail)
  BY <1>1, <1>5, <1>7, ByteInFront
<1>10. Len(k) \in Nat /\ 1 + IdBytes <= Len(key)
  BY <1>1, <1>4, <1>5, <1>9
<1>11. SubSeq(key, 2, 1 + IdBytes) = w
  <2> DEFINE one == 1
  <2>1. one \in Nat /\ one + IdBytes <= Len(key) /\ one + 1 = 2
    BY <1>10
  <2>2. Beyond(key, one) = tail
    BY <1>9
  <2>3. one + IdBytes = 1 + IdBytes
    OBVIOUS
  <2> HIDE DEF one
  <2>4. SubSeq(key, one + 1, one + IdBytes) = FirstBytes(Beyond(key, one), IdBytes)
    BY <1>1, <1>9, <2>1, PieceIs
  <2> QED
    BY <1>5, <2>1, <2>2, <2>3, <2>4
<1>12. ~(Len(key) < 1 + IdBytes)
  BY <1>1, <1>9, <1>10, <1>5
<1>13. SplitRowKey(key) = Decoded(id, k)
  BY <1>2, <1>8, <1>9, <1>11, <1>12 DEF SplitRowKey
<1> QED
  BY <1>4, <1>13 DEF k, key

\* What is needed of key values.
LEMMA KeyValuesAre ==
  \A v \in KeyValues : v = Val(v.t, v.x) /\ IsValue(v)
  BY CodecsAssumption

\* KeysKeepOrder holds of any columns.
LEMMA OrderIsKept == KeysKeepOrder
<1>1. ASSUME NEW id \in Ids, NEW v \in KeyValues
      PROVE  LET split == SplitRowKey(Key(id, v))
             IN  split = Decoded(id, split.rest) /\ DecodeKey(split.rest, v.t) = Decoded(v, <<>>)
  <2> DEFINE split == SplitRowKey(Key(id, v))
  <2>1. split = Decoded(id, EncodeKey(v, v.t).bytes)
    BY RowKeySplits
  <2>2. DecodeKey(EncodeKey(v, v.t).bytes, v.t) = Decoded(v, <<>>)
    BY KeyValuesAre, KeyReadsBack
  <2> HIDE DEF split
  <2>3. split.rest = EncodeKey(v, v.t).bytes
    BY <2>1, ResultIs
  <2>4. split = Decoded(id, split.rest) /\ DecodeKey(split.rest, v.t) = Decoded(v, <<>>)
    BY <2>1, <2>2, <2>3
  <2> QED
    BY <2>4 DEF split
<1>2. ASSUME NEW id \in Ids, NEW v \in KeyValues, NEW w \in KeyValues, w.t = v.t
      PROVE  Less(v, w) <=> BytesLess(Key(id, v), Key(id, w))
  <2> DEFINE p == RowKeyPrefixBytes(id)
             a == EncodeKey(v, v.t).bytes
             b == EncodeKey(w, w.t).bytes
  <2>1. Less(v, w) <=> BytesLess(a, b)
    BY <1>2, KeyValuesAre, KeysCompare
  <2>2. p \in Seq(Byte) /\ a \in Seq(Byte) /\ Key(id, v) = p \o a
    BY RowKeyIs
  <2>3. b \in Seq(Byte) /\ Key(id, w) = p \o b
    BY RowKeyIs
  <2> HIDE DEF p, a, b
  <2>4. BytesLess(a, b) <=> BytesLess(p \o a, p \o b)
    BY <2>2, <2>3, PrefixKeepsOrder
  <2> QED
    BY <2>1, <2>2, <2>3, <2>4
<1> QED
  BY <1>1, <1>2 DEF KeysKeepOrder, KeysOf

\* A scan meets a row key if it is one of the scan's table.
LEMMA MeetsIs ==
  ASSUME NEW i \in Ids, NEW j \in Ids, NEW v \in KeyValues
  PROVE  Meets(i, Key(j, v)) <=> i = j
<1> DEFINE p == RowKeyPrefixBytes(i)
           q == RowKeyPrefixBytes(j)
           k == EncodeKey(v, v.t).bytes
<1>1. p \in Seq(Byte) /\ Len(p) = 1 + IdBytes
  BY RowKeyIs
<1>2. q \in Seq(Byte) /\ Len(q) = 1 + IdBytes /\ k \in Seq(Byte) /\ Key(j, v) = q \o k
  BY RowKeyIs
<1>3. p = q <=> i = j
  BY PrefixesDiffer
<1>4. Meets(i, Key(j, v)) <=> FirstBytes(Key(j, v), Len(p)) = p
  BY DEF Meets
<1> HIDE DEF p, q, k
<1>5. FirstBytes(q \o k, Len(q)) = q
  BY <1>2, TakenApart
<1> QED
  BY <1>1, <1>2, <1>3, <1>4, <1>5

\* No row key's prefix begins as the catalog's keys do.
LEMMA CatalogIsNotMet ==
  ASSUME NEW id \in Ids, NEW key \in Seq(Byte), Len(key) >= 1, key[1] = 0
  PROVE  ~Meets(id, key)
<1> DEFINE p == RowKeyPrefixBytes(id)
           w == BigEndian(id, IdBytes)
           n == Len(p)
           m == IF n < Len(key) THEN n ELSE Len(key)
<1>1. id \in Nat /\ IdBytes \in Nat /\ 1 \in Byte
  BY CodecsAssumption, RowCodecAssumption, ByteSpaceIs
<1>2. w \in Seq(Byte)
  BY <1>1, WordIs
<1>3. p = <<1>> \o w
  BY DEF RowKeyPrefixBytes
<1> HIDE DEF w
<1>4. p[1] = 1 /\ p \in Seq(Byte) /\ n = 1 + Len(w) /\ Len(w) \in Nat
  BY <1>1, <1>2, <1>3, ByteInFront
<1> HIDE DEF p
<1>5. m \in Nat /\ m >= 1 /\ m <= Len(key) /\ FirstBytes(key, n) = SubSeq(key, 1, m)
  BY <1>4 DEF FirstBytes
<1> HIDE DEF n, m
<1>6. SubSeq(key, 1, m)[1] = key[1]
  BY <1>5
<1>7. FirstBytes(key, n) # p
  BY <1>4, <1>5, <1>6
<1> QED
  BY <1>7 DEF Meets, p, n

\* Two bytes.
LEMMA TwoBytes ==
  ASSUME NEW a \in Byte, NEW b \in Byte
  PROVE  <<a, b>> \in Seq(Byte) /\ Len(<<a, b>>) = 2 /\ <<a, b>>[1] = a
  OBVIOUS

\* A string in front gives the first byte.
LEMMA StringInFront ==
  ASSUME NEW s \in Seq(Byte), Len(s) >= 1, NEW rest \in Seq(Byte)
  PROVE  s \o rest \in Seq(Byte) /\ Len(s \o rest) >= 1 /\ (s \o rest)[1] = s[1]
<1>1. s \o rest \in Seq(Byte)
  BY ConcatProperties
<1>2. Len(s) \in Nat /\ Len(rest) \in Nat /\ Len(s \o rest) = Len(s) + Len(rest)
  BY ConcatProperties
<1>3. 1 \in 1 .. Len(s)
  BY <1>2
<1>4. \A i \in 1 .. Len(s) : (s \o rest)[i] = s[i]
  OBVIOUS
<1> QED
  BY <1>1, <1>2, <1>3, <1>4

\* PrefixesSeparateTables holds of any columns.
LEMMA TablesAreSeparate == PrefixesSeparateTables
<1>1. ASSUME NEW i \in Ids, NEW j \in Ids, NEW v \in KeyValues, NEW w \in KeyValues, w.t = v.t, Key(i, v) = Key(j, w)
      PROVE  i = j /\ v = w
  <2> DEFINE a == EncodeKey(v, v.t).bytes
             b == EncodeKey(w, w.t).bytes
  <2>1. SplitRowKey(Key(i, v)) = Decoded(i, a) /\ SplitRowKey(Key(j, w)) = Decoded(j, b)
    BY RowKeySplits
  <2>2. DecodeKey(a, v.t) = Decoded(v, <<>>) /\ DecodeKey(b, w.t) = Decoded(w, <<>>)
    BY KeyValuesAre, KeyReadsBack
  <2> HIDE DEF a, b
  <2>3. Decoded(i, a) = Decoded(j, b)
    BY <1>1, <2>1
  <2>4. i = j /\ a = b
    BY <2>3, ResultIs
  <2>5. Decoded(v, <<>>) = Decoded(w, <<>>)
    BY <1>1, <2>2, <2>4
  <2>6. v = w
    BY <2>5, ResultIs
  <2> QED
    BY <2>4, <2>6
<1>2. ASSUME NEW id \in Ids, NEW name \in Names, NEW key \in {CounterKeyBytes, IndexKeyBytes, TableKeyBytes(name)}
      PROVE  ~Meets(id, key)
  <2>1. 0 \in Byte /\ 1 \in Byte /\ 2 \in Byte
    BY ByteSpaceIs
  <2>2. CASE key = <<0, 0>> \/ key = <<0, 1>>
    <3>1. key \in Seq(Byte) /\ Len(key) = 2 /\ key[1] = 0
      BY <2>1, <2>2, TwoBytes
    <3> QED
      BY <3>1, CatalogIsNotMet
  <2>3. CASE key = <<0, 2>> \o name
    <3> DEFINE h == <<0, 2>>
    <3>1. h \in Seq(Byte) /\ Len(h) = 2 /\ h[1] = 0
      BY <2>1, TwoBytes
    <3>2. name \in Seq(Byte)
      BY CodecsAssumption, TextsAreBytes
    <3> HIDE DEF h
    <3>3. Len(h) >= 1
      BY <3>1
    <3>4. h \o name \in Seq(Byte) /\ Len(h \o name) >= 1 /\ (h \o name)[1] = 0
      BY <3>1, <3>2, <3>3, StringInFront
    <3> QED
      BY <2>3, <3>4, CatalogIsNotMet DEF h
  <2> QED
    BY <1>2, <2>2, <2>3 DEF CounterKeyBytes, IndexKeyBytes, TableKeyBytes
<1> QED
  BY <1>1, <1>2, MeetsIs DEF PrefixesSeparateTables, KeysOf

-----------------------------------------------------------------------------
(* The reachable columns.                                                  *)

\* A decoder that reads all of a string and would not mind more reads nothing that lacks some of it.
LEMMA MoreFails ==
  ASSUME NEW more \in Seq(Byte), more # <<>>, NEW r, NEW q, NEW v,
         IsResult(r), Longer(r, q, more), q = Decoded(v, <<>>)
  PROVE  r = Broken
<1>1. Len(more) # 0 /\ Len(more) \in Nat
  BY EmptySeq
<1>2. ASSUME r.ok PROVE FALSE
  <2> DEFINE rest == r.rest
  <2>1. rest \in Seq(Byte) /\ q.rest = rest \o more
    BY <1>2, LongerIs
  <2>2. q.rest = <<>>
    BY ResultIs
  <2> HIDE DEF rest
  <2>3. Len(rest \o more) = Len(rest) + Len(more) /\ Len(rest) \in Nat
    BY <2>1, TakenApart
  <2>4. Len(<<>>) = 0
    OBVIOUS
  <2>5. Len(rest) + Len(more) = 0
    BY <2>1, <2>2, <2>3, <2>4
  <2> QED
    BY <1>1, <2>3, <2>5
<1> QED
  BY <1>2, ResultSplits

\* Beginnings and what they lack.
LEMMA BeginningsAre ==
  ASSUME NEW s \in Seq(Byte), NEW part \in Beginnings(s)
  PROVE  \E more \in Seq(Byte) : more # <<>> /\ part \in Seq(Byte) /\ s = part \o more
<1>1. PICK n \in 0 .. Len(s) - 1 : part = FirstBytes(s, n)
  BY DEF Beginnings
<1>2. n \in Nat /\ n <= Len(s) /\ n # Len(s) /\ Len(s) \in Nat
  OBVIOUS
<1> DEFINE more == Beyond(s, n)
<1>3. more \in Seq(Byte) /\ part \in Seq(Byte) /\ s = part \o more /\ Len(more) = Len(s) - n
  BY <1>1, <1>2, CutInTwo
<1> HIDE DEF more
<1>4. more # <<>>
  <2>1. Len(<<>>) = 0 /\ Len(more) # 0
    BY <1>2, <1>3
  <2> QED
    BY <2>1
<1> QED
  BY <1>3, <1>4

\* The columns of a reachable state.
Column == [name : Names, ty : {Types[t] : t \in DOMAIN Types}, nullable : BOOLEAN]
CodecTypeOK == columns \in Seq(Column) /\ Len(columns) <= MaxColumns

\* The types are these.
LEMMA TypesAre ==
  /\ {Types[t] : t \in DOMAIN Types} = {"integer", "text", "bytes", "boolean"}
  /\ DOMAIN Types = 1 .. 4 /\ Len(Types) = 4
<1>1. DOMAIN Types = 1 .. 4 /\ Len(Types) = 4
  BY DEF Types
<1>2. \A t : t \in 1 .. 4 <=> t = 1 \/ t = 2 \/ t = 3 \/ t = 4
  OBVIOUS
<1>3. Types[1] = "integer" /\ Types[2] = "text" /\ Types[3] = "bytes" /\ Types[4] = "boolean"
  BY DEF Types
<1> QED
  BY <1>1, <1>2, <1>3

\* The type invariant: whatever is added, the columns are a list of column definitions, no longer
\* than its bound (row.rs ColumnDef, Schema::new).
THEOREM CodecTypes == CodecSpec => []CodecTypeOK
<1>1. columns = <<>> => CodecTypeOK
  <2>1. <<>> \in Seq(Column) /\ Len(<<>>) = 0 /\ MaxColumns \in Nat
    BY CodecsAssumption
  <2> QED
    BY <2>1 DEF CodecTypeOK
<1>2. CodecTypeOK /\ [AddColumn]_columns => CodecTypeOK'
  <2> SUFFICES ASSUME CodecTypeOK, [AddColumn]_columns PROVE CodecTypeOK'
    OBVIOUS
  <2>1. CASE UNCHANGED columns
    BY <2>1 DEF CodecTypeOK
  <2>2. CASE AddColumn
    <3>1. PICK name \in Names, t \in DOMAIN Types, nullable \in BOOLEAN :
            columns' = Append(columns, ColumnDef(name, Types[t], nullable))
      BY <2>2 DEF AddColumn
    <3> DEFINE c == ColumnDef(name, Types[t], nullable)
    <3>2. c \in Column
      BY DEF ColumnDef, Column
    <3>3. columns \in Seq(Column) /\ columns' = Append(columns, c) /\ Len(columns) < MaxColumns
      BY <2>2, <3>1 DEF CodecTypeOK, AddColumn
    <3> HIDE DEF c
    <3>4. columns' \in Seq(Column) /\ Len(columns') = Len(columns) + 1 /\ Len(columns) \in Nat
      BY <3>2, <3>3
    <3>5. Len(columns') <= MaxColumns
      BY <3>3, <3>4, CodecsAssumption
    <3> QED
      BY <3>4, <3>5 DEF CodecTypeOK
  <2> QED
    BY <2>1, <2>2
<1> QED
  BY <1>1, <1>2, PTL DEF CodecSpec

\* Rows are sequences of values that their columns may hold.
LEMMA RowsAre ==
  ASSUME CodecTypeOK, NEW row \in Rows
  PROVE  /\ row \in Seq(Values \cup {NullValue}) /\ Len(row) = Len(columns)
         /\ DOMAIN row = 1 .. Len(columns)
         /\ \A i \in 1 .. Len(columns) : IsRowValue(row[i], columns[i]) /\ columns[i].ty # "null"
<1> DEFINE n == Len(columns)
<1>1. n \in Nat /\ DOMAIN columns = 1 .. n
      /\ \A i \in 1 .. n : columns[i].ty \in {Types[t] : t \in DOMAIN Types}
  <2>1. columns \in Seq(Column)
    BY DEF CodecTypeOK
  <2>2. n \in Nat /\ DOMAIN columns = 1 .. n /\ \A i \in 1 .. n : columns[i] \in Column
    BY <2>1
  <2> HIDE DEF n
  <2>3. \A i \in 1 .. n : columns[i].ty \in {Types[t] : t \in DOMAIN Types}
    BY <2>2 DEF Column
  <2> QED
    BY <2>2, <2>3
<1>2. row \in [1 .. n -> Values \cup {NullValue}] /\ \A i \in 1 .. n : row[i].t \in {columns[i].ty, "null"}
  BY <1>1 DEF Rows
<1> HIDE DEF n
<1>3. row \in Seq(Values \cup {NullValue}) /\ Len(row) = n /\ DOMAIN row = 1 .. n
  BY <1>1, <1>2
<1>4. ASSUME NEW i \in 1 .. n PROVE IsRowValue(row[i], columns[i]) /\ columns[i].ty # "null"
  <2>1. columns[i].ty \in {"integer", "text", "bytes", "boolean"}
    BY <1>1, TypesAre
  <2>2. CASE row[i] = NullValue
    <3>1. NullValue = Val(NullValue.t, NullValue.x)
      BY DEF NullValue, Val
    <3> QED
      BY <2>1, <2>2, <3>1 DEF IsRowValue
  <2>3. CASE row[i] \in Values
    <3> DEFINE v == row[i]
    <3>1. v = Val(v.t, v.x) /\ IsValue(v) /\ (v.t \in {"text", "bytes"} => Fits(Len(v.x), LenBytes))
      BY <2>3, CodecsAssumption
    <3>2. v.t \in {columns[i].ty, "null"}
      BY <1>2
    <3> HIDE DEF v
    <3>3. v.t # "null"
      BY <3>1 DEF IsValue
    <3>4. IsRowValue(v, columns[i])
      BY <3>1, <3>2, <3>3 DEF IsRowValue
    <3> QED
      BY <2>1, <3>4 DEF v
  <2> QED
    BY <1>2, <2>2, <2>3
<1> QED
  BY <1>3, <1>4 DEF n

\* RowsReadBack holds of any columns.
LEMMA RowsAreReadBack ==
  ASSUME CodecTypeOK
  PROVE  RowsReadBack
<1> SUFFICES ASSUME NEW row \in Rows
             PROVE  LET stored   == EncodeRow(columns, row)
                        admitted == \A i \in DOMAIN row : row[i].t = "null" => columns[i].nullable
                    IN  IF admitted
                        THEN stored.ok /\ DecodeRow(columns, stored.bytes) = Decoded(row, <<>>)
                        ELSE ~stored.ok
  BY DEF RowsReadBack
<1> DEFINE V == Values \cup {NullValue}
<1>1. row \in Seq(V) /\ Len(row) = Len(columns) /\ DOMAIN row = 1 .. Len(columns)
      /\ \A i \in 1 .. Len(columns) : IsRowValue(row[i], columns[i]) /\ columns[i].ty # "null"
  BY RowsAre
<1>2. columns \in Seq(Column)
  BY DEF CodecTypeOK
<1> HIDE DEF V
<1>3. IF \A i \in 1 .. Len(columns) : row[i].t = "null" => columns[i].nullable
      THEN /\ EncodeRow(columns, row).ok /\ EncodeRow(columns, row).bytes \in Seq(Byte)
           /\ DecodeRow(columns, EncodeRow(columns, row).bytes) = Decoded(row, <<>>)
      ELSE ~EncodeRow(columns, row).ok
  BY <1>1, <1>2, RowReadsBack
<1> QED
  BY <1>1, <1>3

\* No beginning of a row is one.
LEMMA RowBeginningsFail ==
  ASSUME CodecTypeOK, NEW row \in Rows, EncodeRow(columns, row).ok,
         NEW part \in Beginnings(EncodeRow(columns, row).bytes)
  PROVE  DecodeRow(columns, part) = Broken
<1> DEFINE V == Values \cup {NullValue}
           s == EncodeRow(columns, row).bytes
<1>1. row \in Seq(V) /\ Len(row) = Len(columns) /\ DOMAIN row = 1 .. Len(columns)
      /\ \A i \in 1 .. Len(columns) : IsRowValue(row[i], columns[i]) /\ columns[i].ty # "null"
  BY RowsAre
<1>2. columns \in Seq(Column)
  BY DEF CodecTypeOK
<1> HIDE DEF V
<1>3. IF \A i \in 1 .. Len(columns) : row[i].t = "null" => columns[i].nullable
      THEN /\ EncodeRow(columns, row).ok /\ s \in Seq(Byte) /\ DecodeRow(columns, s) = Decoded(row, <<>>)
      ELSE ~EncodeRow(columns, row).ok
  BY <1>1, <1>2, RowReadsBack
<1>4. s \in Seq(Byte) /\ DecodeRow(columns, s) = Decoded(row, <<>>) /\ part \in Beginnings(s)
  BY <1>3
<1> HIDE DEF s
<1>5. PICK more \in Seq(Byte) : more # <<>> /\ part \in Seq(Byte) /\ s = part \o more
  BY <1>4, BeginningsAre
<1> DEFINE r == DecodeRow(columns, part)
           q == DecodeRow(columns, part \o more)
<1>6. Len(columns) \in Nat
  BY <1>2
<1>7. IsResult(r) /\ Longer(r, q, more)
  BY <1>5, <1>6, DecodeRowIs
<1>8. q = Decoded(row, <<>>)
  BY <1>4, <1>5
<1> HIDE DEF r, q
<1>9. r = Broken
  BY <1>5, <1>7, <1>8, MoreFails
<1> QED
  BY <1>9 DEF r

-----------------------------------------------------------------------------
(* Names and columns of the catalog.                                       *)

\* A name is read back, whatever follows.
LEMMA NameReadsBack ==
  ASSUME NEW name \in Seq(TextBytes), NEW rest \in Seq(Byte)
  PROVE  /\ WriteString(name) \in Seq(Byte)
         /\ Fits(Len(name), NameBytes) => ReadString(WriteString(name) \o rest) = Decoded(name, rest)
<1> DEFINE w == WriteString(name)
           d == w \o rest
<1>1. name \in Seq(Byte) /\ IsText(name) /\ NameBytes \in Nat
  BY TextsAreBytes, CatalogCodecAssumption
<1>2. w \in Seq(Byte) /\ (Fits(Len(name), NameBytes) => TakePrefixed(d, NameBytes) = Decoded(name, rest))
  BY <1>1, PrefixedReadsBack DEF WriteString
<1> HIDE DEF w, d
<1>3. ASSUME Fits(Len(name), NameBytes) PROVE ReadString(d) = Decoded(name, rest)
  BY <1>1, <1>2, <1>3, ResultIs DEF ReadString
<1> QED
  BY <1>2, <1>3 DEF w, d

\* The result of reading a name, and that more bytes behind do not change it.
LEMMA ReadStringIs ==
  ASSUME NEW data \in Seq(Byte), NEW more \in Seq(Byte)
  PROVE  /\ IsResult(ReadString(data))
         /\ Longer(ReadString(data), ReadString(data \o more), more)
<1> DEFINE t == TakePrefixed(data, NameBytes)
           u == TakePrefixed(data \o more, NameBytes)
           r == ReadString(data)
           q == ReadString(data \o more)
<1>1. NameBytes \in Nat
  BY CatalogCodecAssumption
<1>2. IsResult(t) /\ Longer(t, u, more)
  BY <1>1, TakenIs
<1>3. r = (IF t.ok /\ IsText(t.v) THEN t ELSE Broken) /\ q = (IF u.ok /\ IsText(u.v) THEN u ELSE Broken)
  BY DEF ReadString
<1> HIDE DEF t, u, r, q
<1>4. CASE t.ok /\ IsText(t.v)
  <2>1. u.ok /\ u.v = t.v
    BY <1>2, <1>4, LongerIs
  <2>2. r = t /\ q = u
    BY <1>3, <1>4, <2>1
  <2> QED
    BY <1>2, <2>2 DEF r, q
<1>5. CASE ~(t.ok /\ IsText(t.v))
  <2>1. r = Broken
    BY <1>3, <1>5
  <2>2. IsResult(r) /\ Longer(r, q, more)
    BY <2>1, BrokenIsResult, ResultIs DEF Longer
  <2> QED
    BY <2>2 DEF r, q
<1> QED
  BY <1>4, <1>5

\* A byte has room for all tags.
LEMMA TagsFit == 0 \in Byte /\ 1 \in Byte /\ 2 \in Byte /\ 3 \in Byte
<1> DEFINE n == ByteBits - 1
<1>1. ByteBits \in Nat \ {0} /\ ByteSpace = Power(2, ByteBits) /\ ByteSpace > 2
  BY ByteBitsIs, RowCodecAssumption, ByteSpaceIs
<1>2. n \in Nat /\ n + 1 = ByteBits
  BY <1>1
<1> HIDE DEF n
<1>3. Power(2, n) \in Nat /\ ByteSpace = 2 * Power(2, n)
  BY <1>1, <1>2, TwoPowers
<1>4. ByteSpace > 3 /\ ByteSpace \in Nat
  BY <1>1, <1>3
<1> QED
  BY <1>4 DEF Byte

\* Every type has a tag of its own.
LEMMA TagIs ==
  ASSUME NEW ty \in {Types[t] : t \in DOMAIN Types}
  PROVE  TypeTag(ty) \in Byte /\ IsTag(TypeTag(ty)) /\ Types[TypeTag(ty) + 1] = ty
<1> DEFINE i == CHOOSE j \in DOMAIN Types : Types[j] = ty
<1>1. i \in DOMAIN Types /\ Types[i] = ty
  <2>1. \E j \in DOMAIN Types : Types[j] = ty
    OBVIOUS
  <2> QED
    BY <2>1
<1>2. TypeTag(ty) = i - 1
  BY DEF TypeTag
<1> HIDE DEF i
<1>3. i \in 1 .. 4 /\ Len(Types) = 4
  BY <1>1, TypesAre
<1>4. i - 1 = 0 \/ i - 1 = 1 \/ i - 1 = 2 \/ i - 1 = 3
  BY <1>3
<1>5. i - 1 \in Byte
  BY <1>4, TagsFit
<1>6. (i - 1) + 1 = i /\ i - 1 < 4
  BY <1>3
<1> QED
  BY <1>1, <1>2, <1>3, <1>5, <1>6 DEF IsTag

\* The string in front stays where it is.
LEMMA FrontStays ==
  ASSUME NEW s \in Seq(Byte), NEW rest \in Seq(Byte)
  PROVE  \A i \in 1 .. Len(s) : (s \o rest)[i] = s[i]
  OBVIOUS

\* A column's entry is read back, whatever follows.
LEMMA ColumnReadsBack ==
  ASSUME NEW col \in Column, NEW rest \in Seq(Byte)
  PROVE  /\ EncodeColumn(col) \in Seq(Byte)
         /\ Fits(Len(col.name), NameBytes) => DecodeColumn(EncodeColumn(col) \o rest) = Decoded(col, rest)
<1> DEFINE tag == TypeTag(col.ty)
           null == IF col.nullable THEN 1 ELSE 0
           w == WriteString(col.name)
           p == <<tag, null>>
           tail == p \o rest
<1>1. col.name \in Seq(TextBytes) /\ col.ty \in {Types[t] : t \in DOMAIN Types} /\ col.nullable \in BOOLEAN
      /\ col = ColumnDef(col.name, col.ty, col.nullable)
  <2>1. col.name \in Names /\ col.ty \in {Types[t] : t \in DOMAIN Types} /\ col.nullable \in BOOLEAN
    BY DEF Column
  <2>2. col = ColumnDef(col.name, col.ty, col.nullable)
    BY DEF Column, ColumnDef
  <2> QED
    BY <2>1, <2>2, CodecsAssumption
<1>2. tag \in Byte /\ IsTag(tag) /\ Types[tag + 1] = col.ty
  BY <1>1, TagIs
<1>3. null \in Byte /\ (null # 0) = col.nullable
  BY <1>1, TagsFit
<1>4. EncodeColumn(col) = w \o p
  BY DEF EncodeColumn
<1>5. <<>> \in Seq(Byte)
  OBVIOUS
<1>6. w \in Seq(Byte)
  BY <1>1, <1>5, NameReadsBack
<1> HIDE DEF tag, null
<1>7. p \in Seq(Byte) /\ Len(p) = 2 /\ p[1] = tag /\ p[2] = null
  BY <1>2, <1>3
<1> HIDE DEF w, p
<1>8. w \o p \in Seq(Byte)
  BY <1>6, <1>7, ConcatProperties
<1>9. tail \in Seq(Byte) /\ Len(tail) = Len(p) + Len(rest) /\ Beyond(tail, Len(p)) = rest
  BY <1>7, TakenApart
<1>10. tail[1] = tag /\ tail[2] = null
  <2>1. \A i \in 1 .. Len(p) : tail[i] = p[i]
    BY <1>7, FrontStays
  <2>2. 1 \in 1 .. Len(p) /\ 2 \in 1 .. Len(p)
    BY <1>7
  <2> QED
    BY <1>7, <2>1, <2>2
<1>11. (w \o p) \o rest = w \o tail
  BY <1>6, <1>7, Associates, SMTT(30)
<1>12. Len(rest) \in Nat
  OBVIOUS
<1> HIDE DEF tail
<1>13. ~(Len(tail) < 2) /\ Beyond(tail, 2) = rest
  BY <1>7, <1>9, <1>12
<1>14. ASSUME Fits(Len(col.name), NameBytes) PROVE DecodeColumn((w \o p) \o rest) = Decoded(col, rest)
  <2> DEFINE d == (w \o p) \o rest
             name == ReadString(d)
  <2>1. name = Decoded(col.name, tail)
    BY <1>1, <1>9, <1>11, <1>14, NameReadsBack DEF w
  <2>2. DecodeColumn(d) =
          IF ~name.ok \/ Len(name.rest) < 2 \/ ~IsTag(name.rest[1]) THEN Broken
          ELSE Decoded(ColumnDef(name.v, Types[name.rest[1] + 1], name.rest[2] # 0), Beyond(name.rest, 2))
    BY DEF DecodeColumn
  <2> HIDE DEF d, name
  <2>3. name.ok = TRUE /\ name.v = col.name /\ name.rest = tail
    BY <2>1, ResultIs
  <2>4. DecodeColumn(d) = Decoded(ColumnDef(col.name, Types[tag + 1], null # 0), rest)
    BY <1>2, <1>10, <1>13, <2>2, <2>3
  <2>5. ColumnDef(col.name, Types[tag + 1], null # 0) = col
    BY <1>1, <1>2, <1>3
  <2> QED
    BY <2>4, <2>5 DEF d
<1> QED
  BY <1>4, <1>8, <1>14

\* The result of reading a column, and that more bytes behind do not change it.
LEMMA DecodeColumnIs ==
  ASSUME NEW data \in Seq(Byte), NEW more \in Seq(Byte)
  PROVE  /\ IsResult(DecodeColumn(data))
         /\ Longer(DecodeColumn(data), DecodeColumn(data \o more), more)
<1> DEFINE t == ReadString(data)
           u == ReadString(data \o more)
           r == DecodeColumn(data)
           q == DecodeColumn(data \o more)
           Fails(x) == ~x.ok \/ Len(x.rest) < 2 \/ ~IsTag(x.rest[1])
           ColumnIn(x) == ColumnDef(x.v, Types[x.rest[1] + 1], x.rest[2] # 0)
<1>1. IsResult(t) /\ Longer(t, u, more)
  BY ReadStringIs
<1>2. r = (IF Fails(t) THEN Broken ELSE Decoded(ColumnIn(t), Beyond(t.rest, 2)))
      /\ q = (IF Fails(u) THEN Broken ELSE Decoded(ColumnIn(u), Beyond(u.rest, 2)))
  BY DEF DecodeColumn
<1> HIDE DEF t, u, r, q
<1>3. CASE Fails(t)
  <2>1. r = Broken
    BY <1>2, <1>3
  <2>2. IsResult(r) /\ Longer(r, q, more)
    BY <2>1, BrokenIsResult, ResultIs DEF Longer
  <2> QED
    BY <2>2 DEF r, q
<1>4. CASE ~Fails(t)
  <2> DEFINE a == t.rest
             b == u.rest
  <2>1. a \in Seq(Byte) /\ u.ok /\ u.v = t.v /\ b = a \o more /\ Len(a) \in Nat /\ ~(Len(a) < 2)
    BY <1>1, <1>4, LongerIs
  <2> HIDE DEF a, b
  <2>2. 1 \in 1 .. Len(a) /\ 2 \in 1 .. Len(a) /\ 2 <= Len(a) /\ 2 \in Nat
    BY <2>1
  <2>3. \A i \in 1 .. Len(a) : b[i] = a[i]
    BY <2>1
  <2>4. b[1] = a[1] /\ b[2] = a[2]
    BY <2>2, <2>3
  <2>5. Len(b) = Len(a) + Len(more) /\ Len(more) \in Nat
    BY <2>1, ConcatProperties
  <2>6. ~(Len(b) < 2)
    BY <2>1, <2>5
  <2>7. Beyond(b, 2) = Beyond(a, 2) \o more /\ Beyond(a, 2) \in Seq(Byte)
    BY <2>1, <2>2, CutLonger, CutInTwo
  <2>8. ~Fails(u) /\ ColumnIn(u) = ColumnIn(t)
    BY <1>4, <2>1, <2>4, <2>6 DEF a, b
  <2> DEFINE c == ColumnIn(t)
             z == Beyond(a, 2)
  <2>9. r = Decoded(c, z) /\ q = Decoded(c, z \o more) /\ z \in Seq(Byte)
    BY <1>2, <1>4, <2>7, <2>8 DEF a, b
  <2> HIDE DEF c, z
  <2>10. IsResult(r) /\ Longer(r, q, more)
    BY <2>9, DecodedIsResult, ResultIs DEF Longer
  <2> QED
    BY <2>10 DEF r, q
<1> QED
  BY <1>3, <1>4

-----------------------------------------------------------------------------
(* The loops of the catalog's decoders.                                    *)

\* A loop of the catalog's decoders: what it has read after every turn, f[d] being what one turn
\* reads at the front of d.
AreTurns(u, f, data, n) ==
  /\ u[0] = Decoded(<<>>, data)
  /\ \A i \in 1 .. n :
       /\ ~u[i - 1].ok => u[i] = u[i - 1]
       /\ u[i - 1].rest \in Seq(Byte) => u[i] = Further(u[i - 1], f[u[i - 1].rest])

\* A reader whose result is no other when more bytes follow.
IsReader(f) ==
  \A data, more \in Seq(Byte) : IsResult(f[data]) /\ Longer(f[data], f[data \o more], more)

\* A loop of turns of a reader is a reader.
LEMMA TurnsAre ==
  ASSUME NEW n \in Nat, NEW f, IsReader(f), NEW data \in Seq(Byte), NEW more \in Seq(Byte),
         NEW u, AreTurns(u, f, data, n), NEW w, AreTurns(w, f, data \o more, n)
  PROVE  IsResult(u[n]) /\ Longer(u[n], w[n], more)
<1> DEFINE Good(i) == IsResult(u[i]) /\ Longer(u[i], w[i], more)
           H == {i \in 0 .. n : Good(i)}
<1>1. 0 \in H
  <2>1. u[0] = Decoded(<<>>, data) /\ w[0] = Decoded(<<>>, data \o more)
    BY DEF AreTurns
  <2>2. Good(0)
    BY <2>1, DecodedIsResult, ResultIs DEF Longer
  <2> HIDE DEF Good
  <2>3. 0 \in 0 .. n
    OBVIOUS
  <2> QED
    BY <2>2, <2>3
<1>2. ASSUME NEW i \in 1 .. n, i - 1 \in H PROVE i \in H
  <2> DEFINE d == u[i - 1]
             e == w[i - 1]
  <2>1. IsResult(d) /\ Longer(d, e, more)
    BY <1>2
  <2>2. /\ ~d.ok => u[i] = d
        /\ d.rest \in Seq(Byte) => u[i] = Further(d, f[d.rest])
        /\ e.rest \in Seq(Byte) => w[i] = Further(e, f[e.rest])
    BY DEF AreTurns
  <2> HIDE DEF d, e
  <2>3. CASE ~d.ok
    BY <2>1, <2>2, <2>3 DEF Longer
  <2>4. CASE d.ok
    <3> DEFINE a == d.rest
    <3>1. a \in Seq(Byte) /\ e.rest = a \o more
      BY <2>1, <2>4, LongerIs
    <3> HIDE DEF a
    <3>2. a \o more \in Seq(Byte)
      BY <3>1, ConcatProperties
    <3>3. IsResult(f[a]) /\ Longer(f[a], f[a \o more], more)
      BY <3>1 DEF IsReader
    <3>4. u[i] = Further(d, f[a]) /\ w[i] = Further(e, f[a \o more])
      BY <2>2, <3>1, <3>2 DEF a
    <3> QED
      BY <2>1, <3>3, <3>4, FurtherIs
  <2>5. Good(i)
    BY <2>3, <2>4
  <2>6. i \in 0 .. n
    OBVIOUS
  <2> HIDE DEF Good
  <2> QED
    BY <2>5, <2>6
<1> HIDE DEF H
<1>3. \A i \in 0 .. n : i \in H
  BY <1>1, <1>2, IntervalInduction
<1>4. n \in 0 .. n
  OBVIOUS
<1> QED
  BY <1>3, <1>4 DEF H

\* A part of the data that a reader reads as item, whatever follows.
Stands(f, part, item) ==
  part \in Seq(Byte) /\ \A rest \in Seq(Byte) : f[part \o rest] = Decoded(item, rest)

\* A loop reads all items whose parts follow each other.
LEMMA TurnsReadBack ==
  ASSUME NEW f, NEW T, NEW items \in Seq(T), NEW parts \in Seq(Seq(Byte)), Len(parts) = Len(items),
         \A i \in 1 .. Len(items) : Stands(f, parts[i], items[i]),
         NEW u, AreTurns(u, f, FlattenSeq(parts), Len(items))
  PROVE  u[Len(items)] = Decoded(items, <<>>)
<1> DEFINE n == Len(items)
<1>1. n \in Nat /\ Len(parts) = n
  OBVIOUS
<1>2. PICK tail : AreTails(tail, parts, Byte) /\ tail[0] = FlattenSeq(parts)
  BY TailsAre
<1>3. \A i \in 0 .. n : tail[i] \in Seq(Byte)
  BY <1>1, <1>2 DEF AreTails
<1>4. tail[n] = <<>> /\ \A i \in 1 .. n : tail[i - 1] = parts[i] \o tail[i]
  BY <1>1, <1>2 DEF AreTails
<1> DEFINE Read(i) == u[i] = Decoded(SubSeq(items, 1, i), tail[i])
           H == {i \in 0 .. n : Read(i)}
<1>5. 0 \in H
  <2>1. u[0] = Decoded(<<>>, tail[0]) /\ SubSeq(items, 1, 0) = <<>>
    BY <1>2 DEF AreTurns
  <2>2. Read(0)
    BY <2>1
  <2> HIDE DEF Read
  <2> QED
    BY <1>1, <2>2
<1>6. ASSUME NEW i \in 1 .. n, i - 1 \in H PROVE i \in H
  <2> DEFINE done == u[i - 1]
             so == SubSeq(items, 1, i - 1)
             a == tail[i - 1]
             b == tail[i]
  <2>1. done = Decoded(so, a)
    BY <1>6
  <2>2. i \in 0 .. n
    BY <1>1
  <2>3. i - 1 \in 0 .. n
    BY <1>1
  <2>4. a \in Seq(Byte) /\ b \in Seq(Byte)
    BY <1>3, <2>2, <2>3
  <2>5. a = parts[i] \o b
    BY <1>4
  <2>6. Append(so, items[i]) = SubSeq(items, 1, i)
    BY <1>1
  <2>7. done.rest \in Seq(Byte) => u[i] = Further(done, f[done.rest])
    BY DEF AreTurns
  <2>8. Stands(f, parts[i], items[i])
    OBVIOUS
  <2> HIDE DEF done, so, a, b, Read
  <2>9. done.ok = TRUE /\ done.v = so /\ done.rest = a
    BY <2>1, ResultIs
  <2>10. f[a] = Decoded(items[i], b)
    BY <2>4, <2>5, <2>8 DEF Stands
  <2>11. u[i] = Further(done, Decoded(items[i], b))
    BY <2>4, <2>7, <2>9, <2>10
  <2>12. u[i] = Decoded(Append(so, items[i]), b)
    BY <2>9, <2>11, ResultIs DEF Further
  <2>13. Read(i)
    BY <2>6, <2>12 DEF Read, b
  <2> QED
    BY <2>2, <2>13
<1> HIDE DEF H
<1>7. \A i \in 0 .. n : i \in H
  BY <1>1, <1>5, <1>6, IntervalInduction
<1>8. n \in 0 .. n
  BY <1>1
<1>9. u[n] = Decoded(SubSeq(items, 1, n), <<>>)
  BY <1>4, <1>7, <1>8 DEF H
<1>10. SubSeq(items, 1, n) = items
  BY <1>1
<1> QED
  BY <1>9, <1>10

\* What one turn of either loop reads.
ColumnReader == [data \in Seq(Byte) |-> DecodeColumn(data)]
NameReader   == [data \in Seq(Byte) |-> ReadString(data)]

\* Both are readers.
LEMMA ReadersAre == IsReader(ColumnReader) /\ IsReader(NameReader)
<1>1. \A data, more \in Seq(Byte) :
        /\ data \o more \in Seq(Byte)
        /\ IsResult(DecodeColumn(data)) /\ Longer(DecodeColumn(data), DecodeColumn(data \o more), more)
        /\ IsResult(ReadString(data)) /\ Longer(ReadString(data), ReadString(data \o more), more)
  BY ConcatProperties, DecodeColumnIs, ReadStringIs
<1>2. \A data \in Seq(Byte) : ColumnReader[data] = DecodeColumn(data) /\ NameReader[data] = ReadString(data)
  BY DEF ColumnReader, NameReader
<1> QED
  BY <1>1, <1>2 DEF IsReader

\* The loop of decode_table_entry.
LEMMA ColumnTurnsAre ==
  ASSUME NEW data, NEW n \in Nat
  PROVE  \E u : AreTurns(u, ColumnReader, data, n) /\ DecodeColumns(n, data) = u[n]
<1> DEFINE m == n
           Step(x, i) == Further(x, DecodeColumn(x.rest))
           IsUpTo(f, k) == f = [i \in 0 .. k |-> IF i = 0 THEN Decoded(<<>>, data) ELSE Step(f[i - 1], i)]
           u == CHOOSE f : IsUpTo(f, m)
<1>0. m \in Nat
  OBVIOUS
<1>1. DecodeColumns(n, data) = u[m]
  BY DEF DecodeColumns
<1> DEFINE Has(k) == \E f : IsUpTo(f, k)
           H == {k \in 0 .. m : Has(k)}
<1> HIDE DEF u, m, Step, IsUpTo, Has
<1>2. 0 \in H
  <2>1. IsUpTo([i \in 0 .. 0 |-> Decoded(<<>>, data)], 0)
    BY DEF IsUpTo
  <2>2. Has(0)
    BY <2>1 DEF Has
  <2> QED
    BY <1>0, <2>2
<1>3. ASSUME NEW k \in 1 .. m, k - 1 \in H PROVE k \in H
  <2>1. PICK f : IsUpTo(f, k - 1)
    BY <1>3 DEF Has
  <2> DEFINE g == [i \in 0 .. k |-> IF i = k THEN Step(f[k - 1], k) ELSE f[i]]
  <2>2. \A i \in 0 .. k : i # k => i \in 0 .. k - 1
    BY <1>0
  <2>3. \A i \in 0 .. k : i # 0 => i - 1 \in 0 .. k /\ i - 1 # k
    BY <1>0
  <2>4. \A i \in 0 .. k - 1 : f[i] = IF i = 0 THEN Decoded(<<>>, data) ELSE Step(f[i - 1], i)
    BY <2>1 DEF IsUpTo
  <2>5. \A i \in 0 .. k : g[i] = IF i = 0 THEN Decoded(<<>>, data) ELSE Step(g[i - 1], i)
    BY <1>0, <2>2, <2>3, <2>4
  <2>6. g = [i \in 0 .. k |-> g[i]]
    OBVIOUS
  <2> HIDE DEF g
  <2>7. IsUpTo(g, k)
    BY <2>5, <2>6 DEF IsUpTo
  <2>8. Has(k)
    BY <2>7 DEF Has
  <2>9. k \in 0 .. m
    BY <1>0
  <2> QED
    BY <2>8, <2>9
<1> HIDE DEF H
<1>4. \A k \in 0 .. m : k \in H
  BY <1>0, <1>2, <1>3, IntervalInduction
<1>5. m \in 0 .. m
  BY <1>0
<1>6. Has(m)
  BY <1>4, <1>5 DEF H
<1>7. IsUpTo(u, m)
  BY <1>6 DEF Has, u
<1>8. u = [i \in 0 .. m |-> u[i]]
  BY <1>7 DEF IsUpTo
<1>9. u[0] = Decoded(<<>>, data)
  BY <1>0, <1>7 DEF IsUpTo
<1>10. \A i \in 1 .. m : u[i] = Step(u[i - 1], i)
  BY <1>0, <1>7 DEF IsUpTo
<1>11. ASSUME NEW i \in 1 .. m
       PROVE  /\ ~u[i - 1].ok => u[i] = u[i - 1]
              /\ u[i - 1].rest \in Seq(Byte) => u[i] = Further(u[i - 1], ColumnReader[u[i - 1].rest])
  <2> DEFINE d == u[i - 1]
  <2>1. u[i] = Further(d, DecodeColumn(d.rest))
    BY <1>10 DEF Step
  <2> HIDE DEF d
  <2>2. ~d.ok => u[i] = d
    BY <2>1 DEF Further
  <2>3. d.rest \in Seq(Byte) => u[i] = Further(d, ColumnReader[d.rest])
    BY <2>1 DEF ColumnReader
  <2> QED
    BY <2>2, <2>3 DEF d
<1>12. AreTurns(u, ColumnReader, data, m)
  BY <1>9, <1>11 DEF AreTurns
<1> QED
  BY <1>1, <1>12 DEF m

\* The loop of decode_table_index.
LEMMA NameTurnsAre ==
  ASSUME NEW data \in Seq(Byte), ~(Len(data) < CountBytes)
  PROVE  \E u : /\ AreTurns(u, NameReader, Beyond(data, CountBytes), FromLittleEndian(FirstBytes(data, CountBytes)))
               /\ DecodeTableIndex(data) = u[FromLittleEndian(FirstBytes(data, CountBytes))]
<1> DEFINE m == FromLittleEndian(FirstBytes(data, CountBytes))
           start == Decoded(<<>>, Beyond(data, CountBytes))
           Step(x, i) == Further(x, ReadString(x.rest))
           IsUpTo(f, k) == f = [i \in 0 .. k |-> IF i = 0 THEN start ELSE Step(f[i - 1], i)]
           u == CHOOSE f : IsUpTo(f, m)
<1>0. m \in Nat
  <2>1. CountBytes \in Nat /\ Len(data) \in Nat
    BY CatalogCodecAssumption
  <2>2. CountBytes <= Len(data)
    BY <2>1
  <2>3. FirstBytes(data, CountBytes) \in Seq(Byte)
    BY <2>1, <2>2, CutInTwo
  <2> QED
    BY <2>3, NumbersAreRead
<1>1. DecodeTableIndex(data) = u[m]
  BY DEF DecodeTableIndex
<1> DEFINE Has(k) == \E f : IsUpTo(f, k)
           H == {k \in 0 .. m : Has(k)}
<1> HIDE DEF u, m, start, Step, IsUpTo, Has
<1>2. 0 \in H
  <2>1. IsUpTo([i \in 0 .. 0 |-> start], 0)
    BY DEF IsUpTo
  <2>2. Has(0)
    BY <2>1 DEF Has
  <2> QED
    BY <1>0, <2>2
<1>3. ASSUME NEW k \in 1 .. m, k - 1 \in H PROVE k \in H
  <2>1. PICK f : IsUpTo(f, k - 1)
    BY <1>3 DEF Has
  <2> DEFINE g == [i \in 0 .. k |-> IF i = k THEN Step(f[k - 1], k) ELSE f[i]]
  <2>2. \A i \in 0 .. k : i # k => i \in 0 .. k - 1
    BY <1>0
  <2>3. \A i \in 0 .. k : i # 0 => i - 1 \in 0 .. k /\ i - 1 # k
    BY <1>0
  <2>4. \A i \in 0 .. k - 1 : f[i] = IF i = 0 THEN start ELSE Step(f[i - 1], i)
    BY <2>1 DEF IsUpTo
  <2>5. \A i \in 0 .. k : g[i] = IF i = 0 THEN start ELSE Step(g[i - 1], i)
    BY <1>0, <2>2, <2>3, <2>4
  <2>6. g = [i \in 0 .. k |-> g[i]]
    OBVIOUS
  <2> HIDE DEF g
  <2>7. IsUpTo(g, k)
    BY <2>5, <2>6 DEF IsUpTo
  <2>8. Has(k)
    BY <2>7 DEF Has
  <2>9. k \in 0 .. m
    BY <1>0
  <2> QED
    BY <2>8, <2>9
<1> HIDE DEF H
<1>4. \A k \in 0 .. m : k \in H
  BY <1>0, <1>2, <1>3, IntervalInduction
<1>5. m \in 0 .. m
  BY <1>0
<1>6. Has(m)
  BY <1>4, <1>5 DEF H
<1>7. IsUpTo(u, m)
  BY <1>6 DEF Has, u
<1>8. u = [i \in 0 .. m |-> u[i]]
  BY <1>7 DEF IsUpTo
<1>9. u[0] = start
  BY <1>0, <1>7 DEF IsUpTo
<1>10. \A i \in 1 .. m : u[i] = Step(u[i - 1], i)
  BY <1>0, <1>7 DEF IsUpTo
<1>11. ASSUME NEW i \in 1 .. m
       PROVE  /\ ~u[i - 1].ok => u[i] = u[i - 1]
              /\ u[i - 1].rest \in Seq(Byte) => u[i] = Further(u[i - 1], NameReader[u[i - 1].rest])
  <2> DEFINE d == u[i - 1]
  <2>1. u[i] = Further(d, ReadString(d.rest))
    BY <1>10 DEF Step
  <2> HIDE DEF d
  <2>2. ~d.ok => u[i] = d
    BY <2>1 DEF Further
  <2>3. d.rest \in Seq(Byte) => u[i] = Further(d, NameReader[d.rest])
    BY <2>1 DEF NameReader
  <2> QED
    BY <2>2, <2>3 DEF d
<1>12. AreTurns(u, NameReader, Beyond(data, CountBytes), m)
  BY <1>9, <1>11 DEF AreTurns, start
<1> QED
  BY <1>1, <1>12 DEF m

-----------------------------------------------------------------------------
(* Entries and the index.                                                  *)

\* What an entry holds behind its table's name.
Counts(cols, pk) == LittleEndian(Len(cols), NameBytes) \o LittleEndian(pk, NameBytes)
Parts(cols)      == [i \in DOMAIN cols |-> EncodeColumn(cols[i])]

\* What fits its length field.
ColumnsFit(cols) == Fits(Len(cols), NameBytes) /\ \A i \in 1 .. Len(cols) : Fits(Len(cols[i].name), NameBytes)

\* The parts of the columns.
LEMMA PartsAre ==
  ASSUME NEW cols \in Seq(Column)
  PROVE  /\ Parts(cols) \in Seq(Seq(Byte)) /\ Len(Parts(cols)) = Len(cols)
         /\ ColumnsFit(cols) => \A i \in 1 .. Len(cols) : Stands(ColumnReader, Parts(cols)[i], cols[i])
         /\ FlattenSeq(Parts(cols)) \in Seq(Byte)
<1> DEFINE n == Len(cols)
           parts == Parts(cols)
<1>1. n \in Nat /\ DOMAIN cols = 1 .. n /\ \A i \in 1 .. n : cols[i] \in Column
  OBVIOUS
<1>2. parts = [i \in 1 .. n |-> EncodeColumn(cols[i])]
  BY <1>1 DEF Parts
<1>3. <<>> \in Seq(Byte)
  OBVIOUS
<1>4. \A i \in 1 .. n : EncodeColumn(cols[i]) \in Seq(Byte)
  BY <1>1, <1>3, ColumnReadsBack
<1>5. \A i \in 1 .. n : parts[i] = EncodeColumn(cols[i]) /\ parts[i] \in Seq(Byte)
  BY <1>2, <1>4
<1>6. ASSUME ColumnsFit(cols), NEW i \in 1 .. n PROVE Stands(ColumnReader, parts[i], cols[i])
  <2> DEFINE col == cols[i]
             part == EncodeColumn(col)
  <2>1. col \in Column /\ Fits(Len(col.name), NameBytes)
    BY <1>1, <1>6 DEF ColumnsFit
  <2>2. part \in Seq(Byte) /\ parts[i] = part
    BY <1>5
  <2>3. \A rest \in Seq(Byte) : DecodeColumn(part \o rest) = Decoded(col, rest)
    BY <2>1, ColumnReadsBack
  <2> HIDE DEF col, part
  <2>4. \A rest \in Seq(Byte) : ColumnReader[part \o rest] = DecodeColumn(part \o rest)
    BY <2>2, ConcatProperties DEF ColumnReader
  <2>5. Stands(ColumnReader, part, col)
    BY <2>2, <2>3, <2>4 DEF Stands
  <2> QED
    BY <2>2, <2>5 DEF col
<1> HIDE DEF parts, n
<1>7. parts \in Seq(Seq(Byte)) /\ Len(parts) = n
  <2>1. parts = [i \in 1 .. n |-> parts[i]]
    BY <1>2
  <2> QED
    BY <1>1, <1>5, <2>1
<1>8. FlattenSeq(parts) \in Seq(Byte)
  <2>1. PICK tail : AreTails(tail, parts, Byte) /\ tail[0] = FlattenSeq(parts)
    BY <1>7, TailsAre
  <2>2. 0 \in 0 .. n
    BY <1>1
  <2> QED
    BY <1>7, <2>1, <2>2 DEF AreTails
<1> QED
  BY <1>6, <1>7, <1>8 DEF parts, n

\* The columns of an entry are read back.
LEMMA ColumnsReadBack ==
  ASSUME NEW cols \in Seq(Column), ColumnsFit(cols)
  PROVE  DecodeColumns(Len(cols), FlattenSeq(Parts(cols))) = Decoded(cols, <<>>)
<1> DEFINE n == Len(cols)
           parts == Parts(cols)
           flat == FlattenSeq(parts)
<1>1. n \in Nat
  OBVIOUS
<1>2. parts \in Seq(Seq(Byte)) /\ Len(parts) = n
      /\ \A i \in 1 .. n : Stands(ColumnReader, parts[i], cols[i])
  BY PartsAre
<1> HIDE DEF parts
<1>3. PICK u : AreTurns(u, ColumnReader, flat, n) /\ DecodeColumns(n, flat) = u[n]
  BY <1>1, ColumnTurnsAre
<1>4. u[n] = Decoded(cols, <<>>)
  BY <1>2, <1>3, TurnsReadBack
<1> QED
  BY <1>3, <1>4 DEF parts

\* The result of reading columns, and that more bytes behind do not change it.
LEMMA DecodeColumnsIs ==
  ASSUME NEW n \in Nat, NEW data \in Seq(Byte), NEW more \in Seq(Byte)
  PROVE  /\ IsResult(DecodeColumns(n, data))
         /\ Longer(DecodeColumns(n, data), DecodeColumns(n, data \o more), more)
<1>1. PICK u : AreTurns(u, ColumnReader, data, n) /\ DecodeColumns(n, data) = u[n]
  BY ColumnTurnsAre
<1>2. PICK w : AreTurns(w, ColumnReader, data \o more, n) /\ DecodeColumns(n, data \o more) = w[n]
  BY ColumnTurnsAre
<1>3. IsReader(ColumnReader)
  BY ReadersAre
<1> QED
  BY <1>1, <1>2, <1>3, TurnsAre

\* The counts of an entry.
LEMMA CountsAre ==
  ASSUME NEW cols \in Seq(Column), NEW pk \in Nat, NEW rest \in Seq(Byte)
  PROVE  LET c == Counts(cols, pk)
             d == c \o rest
         IN  /\ c \in Seq(Byte) /\ Len(c) = 2 * NameBytes
             /\ d \in Seq(Byte) /\ ~(Len(d) < 2 * NameBytes) /\ 2 * NameBytes <= Len(d)
             /\ FirstBytes(d, 2 * NameBytes) = c /\ Beyond(d, 2 * NameBytes) = rest
             /\ Fits(Len(cols), NameBytes) => FromLittleEndian(FirstBytes(c, NameBytes)) = Len(cols)
             /\ Fits(pk, NameBytes) => FromLittleEndian(Beyond(c, NameBytes)) = pk
<1> DEFINE n == Len(cols)
           a == LittleEndian(n, NameBytes)
           b == LittleEndian(pk, NameBytes)
           c == a \o b
           d == c \o rest
<1>1. n \in Nat /\ NameBytes \in Nat /\ Len(rest) \in Nat
  BY CatalogCodecAssumption
<1>2. a \in Seq(Byte) /\ Len(a) = NameBytes /\ (Fits(n, NameBytes) => FromLittleEndian(a) = n)
  BY <1>1, LittleReadsBack DEF Fits
<1>3. b \in Seq(Byte) /\ Len(b) = NameBytes /\ (Fits(pk, NameBytes) => FromLittleEndian(b) = pk)
  BY <1>1, LittleReadsBack DEF Fits
<1>4. Counts(cols, pk) = c
  BY DEF Counts
<1> HIDE DEF n, a, b
<1>5. c \in Seq(Byte) /\ Len(c) = NameBytes + NameBytes /\ FirstBytes(c, NameBytes) = a /\ Beyond(c, NameBytes) = b
  <2>1. a \in Seq(Byte) /\ b \in Seq(Byte)
    BY <1>2, <1>3
  <2>2. c \in Seq(Byte) /\ Len(c) = Len(a) + Len(b) /\ FirstBytes(c, Len(a)) = a /\ Beyond(c, Len(a)) = b
    BY <2>1, TakenApart
  <2> HIDE DEF c
  <2> QED
    BY <1>2, <1>3, <2>2
<1> HIDE DEF c
<1>6. Len(c) = 2 * NameBytes
  BY <1>1, <1>5
<1>7. d \in Seq(Byte) /\ Len(d) = Len(c) + Len(rest) /\ FirstBytes(d, Len(c)) = c /\ Beyond(d, Len(c)) = rest
  BY <1>5, TakenApart
<1> HIDE DEF d
<1>8. ~(Len(d) < 2 * NameBytes) /\ 2 * NameBytes <= Len(d)
  BY <1>1, <1>6, <1>7
<1> QED
  BY <1>2, <1>3, <1>4, <1>5, <1>6, <1>7, <1>8 DEF n, d

\* An entry taken apart.
LEMMA EntryIs ==
  ASSUME NEW id \in Ids, NEW name \in Names, Fits(Len(name), NameBytes),
         NEW cols \in Seq(Column), NEW pk \in Nat
  PROVE  LET e    == EncodeTableEntry(id, Schema(name, cols, pk))
             rest == Counts(cols, pk) \o FlattenSeq(Parts(cols))
         IN  /\ e \in Seq(Byte) /\ ~(Len(e) < CountBytes) /\ CountBytes <= Len(e)
             /\ FromLittleEndian(FirstBytes(e, CountBytes)) = id
             /\ ReadString(Beyond(e, CountBytes)) = Decoded(name, rest)
<1> DEFINE e == EncodeTableEntry(id, Schema(name, cols, pk))
           h == LittleEndian(id, CountBytes)
           w == WriteString(name)
           a == LittleEndian(Len(cols), NameBytes)
           b == LittleEndian(pk, NameBytes)
           flat == FlattenSeq(Parts(cols))
           rest == (a \o b) \o flat
           body == w \o rest
           d == h \o body
<1>1. CountBytes \in Nat /\ NameBytes \in Nat /\ id \in Nat /\ Fits(id, CountBytes) /\ name \in Seq(TextBytes)
      /\ Len(cols) \in Nat
  BY CodecsAssumption, CatalogCodecAssumption
<1>2. h \in Seq(Byte) /\ Len(h) = CountBytes /\ FromLittleEndian(h) = id
  BY <1>1, LittleReadsBack DEF Fits
<1>3. a \in Seq(Byte) /\ b \in Seq(Byte)
  BY <1>1, LittleReadsBack
<1>4. flat \in Seq(Byte)
  BY PartsAre
<1>5. e = (((h \o w) \o a) \o b) \o flat
  BY DEF EncodeTableEntry, Schema, Parts
<1>6. Counts(cols, pk) = a \o b
  BY DEF Counts
<1> HIDE DEF e, h, a, b, flat
<1>7. a \o b \in Seq(Byte)
  BY <1>3, ConcatProperties
<1>8. rest \in Seq(Byte)
  <2> DEFINE c == a \o b
  <2>1. c \in Seq(Byte)
    BY <1>7
  <2> HIDE DEF c
  <2>2. c \o flat \in Seq(Byte)
    BY <1>4, <2>1, ConcatProperties
  <2> QED
    BY <2>2 DEF c
<1>9. w \in Seq(Byte) /\ ReadString(w \o rest) = Decoded(name, rest)
  <2> HIDE DEF rest
  <2> QED
    BY <1>1, <1>8, NameReadsBack
<1>10. body \in Seq(Byte)
  <2> HIDE DEF rest, w
  <2> QED
    BY <1>8, <1>9, ConcatProperties
<1>11. d \in Seq(Byte) /\ Len(d) = Len(h) + Len(body) /\ FirstBytes(d, Len(h)) = h /\ Beyond(d, Len(h)) = body
  <2> HIDE DEF body
  <2> QED
    BY <1>2, <1>10, TakenApart
<1>12. (((h \o w) \o a) \o b) \o flat = d
  <2> HIDE DEF w
  <2> DEFINE hw == h \o w
  <2>1. hw \in Seq(Byte)
    BY <1>2, <1>9, ConcatProperties
  <2>2. (hw \o a) \o b = hw \o (a \o b)
    <3> HIDE DEF hw
    <3> QED
      BY <1>3, <2>1, Associates, SMTT(30)
  <2>3. (hw \o (a \o b)) \o flat = hw \o rest
    <3> DEFINE c == a \o b
    <3>1. c \in Seq(Byte)
      BY <1>7
    <3> HIDE DEF hw, c
    <3>2. (hw \o c) \o flat = hw \o (c \o flat)
      BY <1>4, <2>1, <3>1, Associates, SMTT(30)
    <3> QED
      BY <3>2 DEF c
  <2>4. hw \o rest = d
    <3> HIDE DEF rest
    <3> QED
      BY <1>2, <1>8, <1>9, Associates, SMTT(30)
  <2> QED
    BY <2>2, <2>3, <2>4
<1>13. Len(body) \in Nat
  BY <1>10
<1> HIDE DEF body
<1>14. ~(Len(d) < CountBytes) /\ CountBytes <= Len(d)
  <2> HIDE DEF d
  <2> QED
    BY <1>1, <1>2, <1>11, <1>13
<1>15. e = d
  BY <1>5, <1>12
<1>16. e \in Seq(Byte) /\ FirstBytes(e, CountBytes) = h /\ Beyond(e, CountBytes) = body
  <2> HIDE DEF d
  <2> QED
    BY <1>2, <1>11, <1>15
<1>17. ReadString(body) = Decoded(name, rest)
  BY <1>9 DEF body
<1> HIDE DEF rest, d
<1>18. FromLittleEndian(FirstBytes(e, CountBytes)) = id /\ ReadString(Beyond(e, CountBytes)) = Decoded(name, rest)
  BY <1>2, <1>16, <1>17
<1> QED
  BY <1>6, <1>14, <1>15, <1>16, <1>18 DEF e, rest, flat

\* What decode_table_entry makes of the name and the columns it has read.
LEMMA DecodeEntryIs ==
  ASSUME NEW data, NEW v, NEW rest, ReadString(Beyond(data, CountBytes)) = Decoded(v, rest),
         ~(Len(data) < CountBytes)
  PROVE  LET c == FirstBytes(rest, 2 * NameBytes)
             r == DecodeColumns(FromLittleEndian(FirstBytes(c, NameBytes)), Beyond(rest, 2 * NameBytes))
             s == Schema(v, r.v, FromLittleEndian(Beyond(c, NameBytes)))
         IN  DecodeTableEntry(data) =
               IF Len(rest) < 2 * NameBytes \/ ~r.ok \/ ~ValidSchema(s) THEN Broken
               ELSE Decoded([id |-> FromLittleEndian(FirstBytes(data, CountBytes)), schema |-> s], <<>>)
<1> DEFINE name == ReadString(Beyond(data, CountBytes))
<1>1. name.ok = TRUE /\ name.v = v /\ name.rest = rest
  BY ResultIs
<1>2. LET counts  == FirstBytes(name.rest, 2 * NameBytes)
          ncols   == FromLittleEndian(FirstBytes(counts, NameBytes))
          pk      == FromLittleEndian(Beyond(counts, NameBytes))
          cols    == DecodeColumns(ncols, Beyond(name.rest, 2 * NameBytes))
          schema  == Schema(name.v, cols.v, pk)
      IN  DecodeTableEntry(data) =
            IF Len(data) < CountBytes \/ ~name.ok \/ Len(name.rest) < 2 * NameBytes \/ ~cols.ok \/ ~ValidSchema(schema)
            THEN Broken
            ELSE Decoded([id |-> FromLittleEndian(FirstBytes(data, CountBytes)), schema |-> schema], <<>>)
  BY DEF DecodeTableEntry
<1> HIDE DEF name
<1> QED
  BY <1>1, <1>2

\* An entry whose parts fit their length fields is read back, if its schema is valid.
LEMMA EntryReadsBack ==
  ASSUME NEW id \in Ids, NEW name \in Names, Fits(Len(name), NameBytes),
         NEW cols \in Seq(Column), ColumnsFit(cols), NEW pk \in Nat, Fits(pk, NameBytes)
  PROVE  LET schema == Schema(name, cols, pk)
         IN  DecodeTableEntry(EncodeTableEntry(id, schema)) =
               IF ValidSchema(schema) THEN Decoded([id |-> id, schema |-> schema], <<>>) ELSE Broken
<1> DEFINE schema == Schema(name, cols, pk)
           e == EncodeTableEntry(id, schema)
           c == Counts(cols, pk)
           flat == FlattenSeq(Parts(cols))
           rest == c \o flat
<1>1. ~(Len(e) < CountBytes) /\ FromLittleEndian(FirstBytes(e, CountBytes)) = id
      /\ ReadString(Beyond(e, CountBytes)) = Decoded(name, rest)
  BY EntryIs
<1>2. flat \in Seq(Byte)
  BY PartsAre
<1> HIDE DEF flat, schema
<1>3. ~(Len(rest) < 2 * NameBytes) /\ FirstBytes(rest, 2 * NameBytes) = c /\ Beyond(rest, 2 * NameBytes) = flat
      /\ FromLittleEndian(FirstBytes(c, NameBytes)) = Len(cols) /\ FromLittleEndian(Beyond(c, NameBytes)) = pk
  BY <1>2, CountsAre DEF ColumnsFit
<1>4. DecodeColumns(Len(cols), flat) = Decoded(cols, <<>>)
  BY ColumnsReadBack DEF flat
<1> DEFINE r == DecodeColumns(Len(cols), flat)
<1>5. r.ok = TRUE /\ r.v = cols
  BY <1>4, ResultIs
<1> HIDE DEF c, e, rest
<1>6. DecodeTableEntry(e) =
        IF Len(rest) < 2 * NameBytes \/ ~r.ok \/ ~ValidSchema(Schema(name, r.v, pk)) THEN Broken
        ELSE Decoded([id |-> id, schema |-> Schema(name, r.v, pk)], <<>>)
  BY <1>1, <1>3, DecodeEntryIs
<1>7. DecodeTableEntry(e) = IF ValidSchema(schema) THEN Decoded([id |-> id, schema |-> schema], <<>>) ELSE Broken
  BY <1>3, <1>5, <1>6 DEF schema
<1> QED
  BY <1>7 DEF e, schema

\* No beginning of an entry is one.
LEMMA EntryBeginningsFail ==
  ASSUME NEW id \in Ids, NEW name \in Names, Fits(Len(name), NameBytes),
         NEW cols \in Seq(Column), ColumnsFit(cols), NEW pk \in Nat,
         NEW part \in Beginnings(EncodeTableEntry(id, Schema(name, cols, pk)))
  PROVE  DecodeTableEntry(part) = Broken
<1> DEFINE e == EncodeTableEntry(id, Schema(name, cols, pk))
           c == Counts(cols, pk)
           flat == FlattenSeq(Parts(cols))
           rest == c \o flat
<1>1. e \in Seq(Byte) /\ ReadString(Beyond(e, CountBytes)) = Decoded(name, rest)
  BY EntryIs
<1>2. flat \in Seq(Byte)
  BY PartsAre
<1>3. part \in Beginnings(e)
  OBVIOUS
<1> HIDE DEF flat, e
<1>4. FirstBytes(rest, 2 * NameBytes) = c /\ Beyond(rest, 2 * NameBytes) = flat
      /\ FromLittleEndian(FirstBytes(c, NameBytes)) = Len(cols)
  BY <1>2, CountsAre DEF ColumnsFit
<1>5. DecodeColumns(Len(cols), flat) = Decoded(cols, <<>>)
  BY ColumnsReadBack DEF flat
<1>6. PICK more \in Seq(Byte) : more # <<>> /\ part \in Seq(Byte) /\ e = part \o more
  BY <1>1, <1>3, BeginningsAre
<1>7. CountBytes \in Nat /\ NameBytes \in Nat /\ 2 * NameBytes \in Nat /\ Len(part) \in Nat /\ Len(cols) \in Nat
  BY <1>6, CatalogCodecAssumption
<1> HIDE DEF c, rest
<1> DEFINE body == Beyond(part, CountBytes)
           found == ReadString(body)
           left == found.rest
<1>8. CASE Len(part) < CountBytes
  BY <1>8 DEF DecodeTableEntry
<1>9. CASE ~(Len(part) < CountBytes) /\ ~found.ok
  BY <1>9 DEF DecodeTableEntry
<1>10. CASE ~(Len(part) < CountBytes) /\ found.ok
  <2>1. CountBytes <= Len(part)
    BY <1>7, <1>10
  <2>2. body \in Seq(Byte) /\ Beyond(e, CountBytes) = body \o more
    <3>1. part \in Seq(Byte) /\ more \in Seq(Byte)
      BY <1>6
    <3>2. CountBytes \in Nat
      BY <1>7
    <3>3. Beyond(part \o more, CountBytes) = body \o more
      BY <2>1, <3>1, <3>2, CutLonger
    <3>4. body \in Seq(Byte)
      BY <3>1, <3>2, CutInTwo
    <3> QED
      BY <1>6, <3>3, <3>4
  <2> HIDE DEF body
  <2>3. IsResult(found) /\ Longer(found, ReadString(body \o more), more)
    BY <1>6, <2>2, ReadStringIs
  <2>4. ReadString(body \o more) = Decoded(name, rest)
    BY <1>1, <2>2
  <2> HIDE DEF found
  <2>5. left \in Seq(Byte) /\ rest = left \o more
    <3>1. left \in Seq(Byte) /\ Decoded(name, rest).rest = left \o more
      BY <1>10, <2>3, <2>4, LongerIs
    <3> QED
      BY <3>1, ResultIs
  <2>6. found = Decoded(found.v, left)
    BY <1>10, <2>3, ResultSplits
  <2> HIDE DEF left
  <2> DEFINE counts == FirstBytes(left, 2 * NameBytes)
             r == DecodeColumns(FromLittleEndian(FirstBytes(counts, NameBytes)), Beyond(left, 2 * NameBytes))
  <2>7. DecodeTableEntry(part) = Broken \/ (~(Len(left) < 2 * NameBytes) /\ r.ok)
    <3>1. ReadString(Beyond(part, CountBytes)) = Decoded(found.v, left)
      BY <2>6 DEF found, body
    <3> QED
      BY <1>10, <3>1, DecodeEntryIs
  <2>8. ASSUME ~(Len(left) < 2 * NameBytes), r.ok PROVE FALSE
    <3> DEFINE k == 2 * NameBytes
               tail == Beyond(left, k)
    <3>1. k \in Nat /\ Len(left) \in Nat /\ ~(Len(left) < k)
      BY <1>7, <2>5, <2>8
    <3>2. FirstBytes(rest, k) = c /\ Beyond(rest, k) = flat
      BY <1>4
    <3>3. r = DecodeColumns(FromLittleEndian(FirstBytes(FirstBytes(left, k), NameBytes)), tail)
      OBVIOUS
    <3> HIDE DEF k, r
    <3>4. k <= Len(left)
      BY <3>1
    <3>5. FirstBytes(rest, k) = FirstBytes(left, k) /\ Beyond(rest, k) = tail \o more /\ tail \in Seq(Byte)
      <4>1. left \in Seq(Byte) /\ more \in Seq(Byte)
        BY <1>6, <2>5
      <4>2. k \in Nat
        BY <3>1
      <4>3. FirstBytes(left \o more, k) = FirstBytes(left, k) /\ Beyond(left \o more, k) = tail \o more
        BY <3>4, <4>1, <4>2, CutLonger
      <4>4. tail \in Seq(Byte)
        BY <4>1, <4>2, CutInTwo
      <4> QED
        BY <2>5, <4>3, <4>4
    <3> HIDE DEF tail
    <3>6. r = DecodeColumns(Len(cols), tail) /\ flat = tail \o more
      BY <1>4, <3>2, <3>3, <3>5
    <3>7. IsResult(r) /\ Longer(r, DecodeColumns(Len(cols), tail \o more), more)
      BY <1>6, <1>7, <3>5, <3>6, DecodeColumnsIs
    <3>8. DecodeColumns(Len(cols), tail \o more) = Decoded(cols, <<>>)
      BY <1>5, <3>6
    <3>9. r = Broken
      BY <1>6, <3>7, <3>8, MoreFails
    <3> QED
      BY <2>8, <3>9, ResultIs
  <2> QED
    BY <2>7, <2>8
<1> QED
  BY <1>8, <1>9, <1>10

\* What an index holds behind its count.
NameParts(names) == [i \in DOMAIN names |-> WriteString(names[i])]

\* The parts of the names.
LEMMA NamePartsAre ==
  ASSUME NEW names \in Seq(Names), \A i \in 1 .. Len(names) : Fits(Len(names[i]), NameBytes)
  PROVE  /\ NameParts(names) \in Seq(Seq(Byte)) /\ Len(NameParts(names)) = Len(names)
         /\ \A i \in 1 .. Len(names) : Stands(NameReader, NameParts(names)[i], names[i])
         /\ FlattenSeq(NameParts(names)) \in Seq(Byte)
<1> DEFINE n == Len(names)
           parts == NameParts(names)
<1>1. n \in Nat /\ DOMAIN names = 1 .. n /\ \A i \in 1 .. n : names[i] \in Names
  OBVIOUS
<1>2. parts = [i \in 1 .. n |-> WriteString(names[i])]
  BY <1>1 DEF NameParts
<1>3. ASSUME NEW i \in 1 .. n
      PROVE  parts[i] \in Seq(Byte) /\ Stands(NameReader, parts[i], names[i])
  <2> DEFINE name == names[i]
             part == WriteString(name)
  <2>1. name \in Seq(TextBytes) /\ Fits(Len(name), NameBytes)
    BY <1>1, CodecsAssumption
  <2>2. parts[i] = part
    BY <1>2
  <2> HIDE DEF name
  <2>3. <<>> \in Seq(Byte)
    OBVIOUS
  <2>4. part \in Seq(Byte) /\ \A rest \in Seq(Byte) : ReadString(part \o rest) = Decoded(name, rest)
    BY <2>1, <2>3, NameReadsBack
  <2> HIDE DEF part
  <2>5. \A rest \in Seq(Byte) : NameReader[part \o rest] = ReadString(part \o rest)
    BY <2>4, ConcatProperties DEF NameReader
  <2>6. Stands(NameReader, part, name)
    BY <2>4, <2>5 DEF Stands
  <2> QED
    BY <2>2, <2>4, <2>6 DEF name
<1> HIDE DEF parts, n
<1>4. parts \in Seq(Seq(Byte)) /\ Len(parts) = n
  <2>1. parts = [i \in 1 .. n |-> parts[i]]
    BY <1>2
  <2> QED
    BY <1>1, <1>3, <2>1
<1>5. FlattenSeq(parts) \in Seq(Byte)
  <2>1. PICK tail : AreTails(tail, parts, Byte) /\ tail[0] = FlattenSeq(parts)
    BY <1>4, TailsAre
  <2>2. 0 \in 0 .. n
    BY <1>1
  <2> QED
    BY <1>4, <2>1, <2>2 DEF AreTails
<1> QED
  BY <1>3, <1>4, <1>5 DEF parts, n

\* The result of reading an index, and that more bytes behind do not change it.
LEMMA DecodeIndexIs ==
  ASSUME NEW data \in Seq(Byte), NEW more \in Seq(Byte)
  PROVE  /\ IsResult(DecodeTableIndex(data))
         /\ Longer(DecodeTableIndex(data), DecodeTableIndex(data \o more), more)
<1> DEFINE long == data \o more
           n == FromLittleEndian(FirstBytes(data, CountBytes))
           body == Beyond(data, CountBytes)
<1>1. CountBytes \in Nat /\ Len(data) \in Nat /\ Len(more) \in Nat
  BY CatalogCodecAssumption
<1>2. long \in Seq(Byte) /\ Len(long) = Len(data) + Len(more)
  BY ConcatProperties
<1>3. CASE Len(data) < CountBytes
  <2>1. DecodeTableIndex(data) = Broken
    BY <1>3 DEF DecodeTableIndex
  <2> QED
    BY <2>1, BrokenIsResult, ResultIs DEF Longer
<1>4. CASE ~(Len(data) < CountBytes)
  <2>1. CountBytes <= Len(data) /\ ~(Len(long) < CountBytes)
    BY <1>1, <1>2, <1>4
  <2>2. FirstBytes(data, CountBytes) \in Seq(Byte) /\ body \in Seq(Byte)
    BY <1>1, <2>1, CutInTwo
  <2>3. n \in Nat
    BY <2>2, NumbersAreRead
  <2>4. FirstBytes(long, CountBytes) = FirstBytes(data, CountBytes) /\ Beyond(long, CountBytes) = body \o more
    BY <1>1, <2>1, CutLonger
  <2>5. PICK u : AreTurns(u, NameReader, body, n) /\ DecodeTableIndex(data) = u[n]
    BY <1>4, NameTurnsAre
  <2>6. \E w : /\ AreTurns(w, NameReader, body \o more, n)
               /\ DecodeTableIndex(long) = w[n]
    <3> HIDE DEF long, body
    <3>1. \E w : /\ AreTurns(w, NameReader, Beyond(long, CountBytes), FromLittleEndian(FirstBytes(long, CountBytes)))
                 /\ DecodeTableIndex(long) = w[FromLittleEndian(FirstBytes(long, CountBytes))]
      BY <1>2, <2>1, NameTurnsAre
    <3> QED
      BY <2>4, <3>1
  <2>7. PICK w : AreTurns(w, NameReader, body \o more, n) /\ DecodeTableIndex(long) = w[n]
    BY <2>6
  <2>8. IsReader(NameReader)
    BY ReadersAre
  <2> HIDE DEF n, body
  <2>9. IsResult(u[n]) /\ Longer(u[n], w[n], more)
    BY <2>2, <2>3, <2>5, <2>7, <2>8, TurnsAre
  <2> QED
    BY <2>5, <2>7, <2>9
<1> QED
  BY <1>3, <1>4

\* An index whose parts fit their length fields is written in bytes and read back.
LEMMA NamesReadBack ==
  ASSUME NEW names \in Seq(Names), Fits(Len(names), CountBytes),
         \A i \in 1 .. Len(names) : Fits(Len(names[i]), NameBytes)
  PROVE  /\ EncodeTableIndex(names) \in Seq(Byte)
         /\ DecodeTableIndex(EncodeTableIndex(names)) = Decoded(names, <<>>)
<1> DEFINE n == Len(names)
           h == LittleEndian(n, CountBytes)
           parts == NameParts(names)
           flat == FlattenSeq(parts)
           d == h \o flat
<1>1. n \in Nat /\ CountBytes \in Nat
  BY CatalogCodecAssumption
<1>2. h \in Seq(Byte) /\ Len(h) = CountBytes /\ FromLittleEndian(h) = n
  BY <1>1, LittleReadsBack DEF Fits
<1>3. parts \in Seq(Seq(Byte)) /\ Len(parts) = n /\ flat \in Seq(Byte)
      /\ \A i \in 1 .. n : Stands(NameReader, parts[i], names[i])
  BY NamePartsAre
<1>4. EncodeTableIndex(names) = d
  BY DEF EncodeTableIndex, NameParts
<1> HIDE DEF h, parts
<1>5. d \in Seq(Byte) /\ Len(d) = CountBytes + Len(flat) /\ Len(flat) \in Nat
      /\ FirstBytes(d, CountBytes) = h /\ Beyond(d, CountBytes) = flat
  <2> HIDE DEF flat
  <2>1. h \in Seq(Byte) /\ flat \in Seq(Byte)
    BY <1>2, <1>3
  <2>2. d \in Seq(Byte) /\ Len(d) = Len(h) + Len(flat) /\ Len(flat) \in Nat
        /\ FirstBytes(d, Len(h)) = h /\ Beyond(d, Len(h)) = flat
    BY <2>1, TakenApart
  <2> HIDE DEF d
  <2> QED
    BY <1>2, <2>2
<1> HIDE DEF d
<1>6. ~(Len(d) < CountBytes)
  <2> HIDE DEF flat
  <2> QED
    BY <1>1, <1>5
<1>7. PICK u : AreTurns(u, NameReader, Beyond(d, CountBytes), FromLittleEndian(FirstBytes(d, CountBytes)))
               /\ DecodeTableIndex(d) = u[FromLittleEndian(FirstBytes(d, CountBytes))]
  BY <1>5, <1>6, NameTurnsAre
<1>8. AreTurns(u, NameReader, flat, n) /\ DecodeTableIndex(d) = u[n]
  BY <1>2, <1>5, <1>7
<1>9. u[n] = Decoded(names, <<>>)
  BY <1>3, <1>8, TurnsReadBack
<1> QED
  BY <1>4, <1>5, <1>8, <1>9

\* What fits the longest lengths fits the shorter ones.
LEMMA ShorterFits ==
  ASSUME NEW width \in Nat, NEW m \in Nat, NEW n \in Nat, m <= n, Fits(n, width)
  PROVE  Fits(m, width)
<1>1. Power(ByteSpace, width) \in Nat
  BY ByteSpaceIs, PowerIs
<1> QED
  BY <1>1 DEF Fits

\* The columns and names of a reachable state fit.
LEMMA ColumnsAre ==
  ASSUME CodecTypeOK, CatalogFits
  PROVE  /\ columns \in Seq(Column) /\ ColumnsFit(columns)
         /\ Index \in Seq(Names) /\ Len(Index) = Len(columns) /\ Fits(Len(Index), CountBytes)
         /\ \A i \in 1 .. Len(Index) : Fits(Len(Index[i]), NameBytes)
<1> DEFINE n == Len(columns)
<1>1. columns \in Seq(Column) /\ n <= MaxColumns /\ MaxColumns \in Nat
      /\ NameBytes \in Nat /\ CountBytes \in Nat
  BY CodecsAssumption, CatalogCodecAssumption DEF CodecTypeOK
<1>2. n \in Nat /\ DOMAIN columns = 1 .. n /\ \A i \in 1 .. n : columns[i] \in Column
  BY <1>1
<1> HIDE DEF n
<1>3. \A i \in 1 .. n : columns[i].name \in Names
  BY <1>2 DEF Column
<1>4. Fits(n, NameBytes) /\ Fits(n, CountBytes)
  BY <1>1, <1>2, ShorterFits DEF CatalogFits
<1>5. \A i \in 1 .. n : Fits(Len(columns[i].name), NameBytes)
  BY <1>3 DEF CatalogFits
<1>6. Index = [i \in 1 .. n |-> columns[i].name]
  BY <1>2 DEF Index
<1>7. Index \in Seq(Names) /\ Len(Index) = n /\ \A i \in 1 .. n : Index[i] = columns[i].name
  BY <1>2, <1>3, <1>6
<1> QED
  BY <1>1, <1>4, <1>5, <1>7 DEF n, ColumnsFit

\* The schemas of a reachable state.
LEMMA SchemasAre ==
  ASSUME CatalogFits, NEW schema \in Schemas
  PROVE  \E name \in Names, pk \in Nat :
           /\ schema = Schema(name, columns, pk)
           /\ Fits(Len(name), NameBytes) /\ Fits(pk, NameBytes)
<1>1. PICK name \in Names, pk \in 0 .. MaxColumns : schema = Schema(name, columns, pk)
  BY DEF Schemas
<1>2. MaxColumns \in Nat /\ NameBytes \in Nat
  BY CodecsAssumption, CatalogCodecAssumption
<1>3. pk \in Nat /\ pk <= MaxColumns
  BY <1>2
<1>4. Fits(pk, NameBytes) /\ Fits(Len(name), NameBytes)
  BY <1>2, <1>3, ShorterFits DEF CatalogFits
<1> QED
  BY <1>1, <1>3, <1>4

\* CatalogReadsBack holds of any columns.
LEMMA CatalogIsReadBack ==
  ASSUME CodecTypeOK
  PROVE  CatalogReadsBack
<1> SUFFICES ASSUME CatalogFits
             PROVE  /\ \A id \in Ids, schema \in Schemas :
                         DecodeTableEntry(EncodeTableEntry(id, schema)) =
                           IF ValidSchema(schema) THEN Decoded([id |-> id, schema |-> schema], <<>>) ELSE Broken
                    /\ IndexReadsBack
  BY DEF CatalogReadsBack
<1>1. columns \in Seq(Column) /\ ColumnsFit(columns)
      /\ Index \in Seq(Names) /\ Fits(Len(Index), CountBytes)
      /\ \A i \in 1 .. Len(Index) : Fits(Len(Index[i]), NameBytes)
  BY ColumnsAre
<1>2. ASSUME NEW id \in Ids, NEW schema \in Schemas
      PROVE  DecodeTableEntry(EncodeTableEntry(id, schema)) =
               IF ValidSchema(schema) THEN Decoded([id |-> id, schema |-> schema], <<>>) ELSE Broken
  <2>1. PICK name \in Names, pk \in Nat : /\ schema = Schema(name, columns, pk)
                                          /\ Fits(Len(name), NameBytes) /\ Fits(pk, NameBytes)
    BY SchemasAre
  <2> QED
    BY <1>1, <2>1, EntryReadsBack
<1>3. IndexReadsBack
  BY <1>1, NamesReadBack DEF IndexReadsBack
<1> QED
  BY <1>2, <1>3

\* TruncationIsRefused holds of any columns.
LEMMA BeginningsAreRefused ==
  ASSUME CodecTypeOK
  PROVE  TruncationIsRefused
<1>1. ASSUME NEW row \in Rows, EncodeRow(columns, row).ok,
             NEW part \in Beginnings(EncodeRow(columns, row).bytes)
      PROVE  DecodeRow(columns, part) = Broken
  BY <1>1, RowBeginningsFail
<1>2. ASSUME CatalogFits, NEW id \in Ids, NEW schema \in Schemas,
             NEW part \in Beginnings(EncodeTableEntry(id, schema))
      PROVE  DecodeTableEntry(part) = Broken
  <2>1. PICK name \in Names, pk \in Nat : /\ schema = Schema(name, columns, pk)
                                          /\ Fits(Len(name), NameBytes) /\ Fits(pk, NameBytes)
    BY <1>2, SchemasAre
  <2>2. columns \in Seq(Column) /\ ColumnsFit(columns)
    BY <1>2, ColumnsAre
  <2> QED
    BY <2>1, <2>2, EntryBeginningsFail
<1>3. ASSUME CatalogFits, NEW part \in Beginnings(EncodeTableIndex(Index))
      PROVE  DecodeTableIndex(part) = Broken
  <2> DEFINE s == EncodeTableIndex(Index)
  <2>1. s \in Seq(Byte) /\ DecodeTableIndex(s) = Decoded(Index, <<>>)
    BY <1>3, ColumnsAre, NamesReadBack
  <2>2. part \in Beginnings(s)
    OBVIOUS
  <2> HIDE DEF s
  <2>3. PICK more \in Seq(Byte) : more # <<>> /\ part \in Seq(Byte) /\ s = part \o more
    BY <2>1, <2>2, BeginningsAre
  <2>4. IsResult(DecodeTableIndex(part)) /\ Longer(DecodeTableIndex(part), DecodeTableIndex(part \o more), more)
    BY <2>3, DecodeIndexIs
  <2>5. DecodeTableIndex(part \o more) = Decoded(Index, <<>>)
    BY <2>1, <2>3
  <2> QED
    BY <2>3, <2>4, <2>5, MoreFails
<1> QED
  BY <1>1, <1>2, <1>3 DEF TruncationIsRefused

-----------------------------------------------------------------------------
\* Every row that its table admits is read back as it was written, NULLs included, and no other is
\* written, for bytes, bitmaps, integers and lengths of any width and rows of any number of columns
\* (row.rs encode_row and decode_row).
THEOREM RowsAlwaysReadBack == CodecSpec => []RowsReadBack
<1>1. CodecTypeOK => RowsReadBack
  BY RowsAreReadBack
<1> QED
  BY <1>1, CodecTypes, PTL

\* Every table entry of a valid schema and every index is read back as it was written, when the
\* lengths fit their fields (codec.rs encode_table_entry, encode_table_index and their decoders).
THEOREM CatalogAlwaysReadsBack == CodecSpec => []CatalogReadsBack
<1>1. CodecTypeOK => CatalogReadsBack
  BY CatalogIsReadBack
<1> QED
  BY <1>1, CodecTypes, PTL

\* No decoder takes the beginning of a row, an entry or an index for the whole, wherever it was cut
\* (row.rs decode_row, value.rs decode_value, codec.rs read_string and both decoders).
THEOREM TruncationIsAlwaysRefused == CodecSpec => []TruncationIsRefused
<1>1. CodecTypeOK => TruncationIsRefused
  BY BeginningsAreRefused
<1> QED
  BY <1>1, CodecTypes, PTL

\* A row key always names its table and its primary key again, and keys compare as the values do,
\* negative integers and strings of any length among them (key.rs encode_key_component, row_key).
THEOREM KeysAlwaysKeepOrder == CodecSpec => []KeysKeepOrder
<1>1. KeysKeepOrder
  BY OrderIsKept
<1> QED
  BY <1>1, PTL

\* No scan of a table ever meets a row of another or an entry of the catalog, and different rows
\* have different keys (key.rs row_key_prefix and row_key, the catalog's keys).
THEOREM PrefixesAlwaysSeparateTables == CodecSpec => []PrefixesSeparateTables
<1>1. PrefixesSeparateTables
  BY TablesAreSeparate
<1> QED
  BY <1>1, PTL
=============================================================================
