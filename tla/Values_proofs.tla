--------------------------- MODULE Values_proofs ---------------------------
(***************************************************************************)
(* Proofs about values of any size on their way from the configuration or  *)
(* a client to a device, the backend and their readers.                    *)
(***************************************************************************)
EXTENDS ValueCalls, TLAPS, WellFoundedInduction, SequenceTheorems

-----------------------------------------------------------------------------
(* Numbers and their bytes. *)

\* What is divided by d.
LEMMA QuotientIs ==
  ASSUME NEW a \in Int, NEW d \in Nat \ {0}, NEW r \in 0..(d - 1), NEW n, n = a * d + r
  PROVE  n \div d = a /\ n % d = r
<1> DEFINE q == n \div d
           m == n % d
<1>1. n \in Int
  OBVIOUS
<1>2. q \in Int /\ m \in 0..(d - 1) /\ n = q * d + m
  BY <1>1
<1> HIDE DEF q, m
<1>3. ~ (q < a)
  <2> SUFFICES ASSUME q + 1 <= a PROVE FALSE
    BY <1>2
  <2>1. (q + 1) * d <= a * d
    BY <1>2
  <2> QED
    BY <1>2, <2>1
<1>4. ~ (a < q)
  <2> SUFFICES ASSUME a + 1 <= q PROVE FALSE
    BY <1>2
  <2>1. (a + 1) * d <= q * d
    BY <1>2
  <2> QED
    BY <1>2, <2>1
<1>5. q = a
  BY <1>2, <1>3, <1>4
<1>6. m = r
  BY <1>2, <1>5
<1> QED
  BY <1>5, <1>6 DEF q, m

\* A number less than k * d has a quotient by d less than k.
LEMMA QuotientLess ==
  ASSUME NEW n \in Nat, NEW d \in Nat \ {0}, NEW k \in Nat, n < k * d
  PROVE  n \div d \in 0..(k - 1) /\ n % d \in 0..(d - 1) /\ n = (n \div d) * d + (n % d)
<1> DEFINE q == n \div d
           m == n % d
<1>1. q \in Int /\ m \in 0..(d - 1) /\ n = q * d + m
  OBVIOUS
<1> HIDE DEF q, m
<1>2. ~ (q < 0)
  <2> SUFFICES ASSUME q + 1 <= 0 PROVE FALSE
    BY <1>1
  <2>1. (q + 1) * d <= 0 * d
    BY <1>1
  <2> QED
    BY <1>1, <2>1
<1>3. ~ (k <= q)
  <2> SUFFICES ASSUME k <= q PROVE FALSE
    OBVIOUS
  <2>1. k * d <= q * d
    BY <1>1
  <2> QED
    BY <1>1, <2>1
<1> QED
  BY <1>1, <1>2, <1>3 DEF q, m

Bytes == 0..(Byte - 1)

\* The same, for bytes.
LEMMA Divided ==
  ASSUME NEW x \in Int, NEW y \in 0..(Byte - 1), NEW z \in Int, z = x * Byte + y, Byte \in Nat \ {0}
  PROVE  z \div Byte = x /\ z % Byte = y
<1>1. z \div Byte = x
  BY QuotientIs
<1>2. z % Byte = y
  BY QuotientIs
<1> QED
  BY <1>1, <1>2

Number(a, b, c, d) == ((a * Byte + b) * Byte + c) * Byte + d

\* One more digit.
LEMMA Shifted ==
  ASSUME NEW n \in Nat, NEW k \in Nat, n \in 0..(k - 1), NEW d \in Bytes, Byte \in Nat \ {0}
  PROVE  n * Byte + d \in 0..(k * Byte - 1)
<1>1. d \in Nat /\ d < Byte
  BY DEF Bytes
<1>2. (k - 1 - n) * Byte >= 0
  OBVIOUS
<1>3. n * Byte \in Nat /\ k * Byte \in Nat /\ k * Byte = n * Byte + Byte + (k - 1 - n) * Byte
  OBVIOUS
<1> DEFINE x == n * Byte
           y == k * Byte
           z == (k - 1 - n) * Byte
<1>4. x \in Nat /\ y \in Nat /\ z \in Int /\ z >= 0 /\ y = x + Byte + z
  BY <1>2, <1>3
<1> HIDE DEF x, y, z
<1>5. x + d \in 0..(y - 1)
  BY <1>1, <1>4
<1> QED
  BY <1>5 DEF x, y

\* The units of numbers are positive.
LEMMA ByteType == Byte \in Nat \ {0} /\ Word \in Nat \ {0} /\ Hex \in Nat \ {0, 1}
<1>1. Hex * Hex \in Nat \ {0} /\ Hex \in Nat \ {0, 1}
  BY ValuesAssumption
<1>2. Byte \in Nat \ {0}
  BY <1>1, ValuesAssumption
<1>3. Byte * Byte \in Nat \ {0}
  BY <1>2
<1>4. Byte * Byte * Byte \in Nat \ {0}
  BY <1>2, <1>3
<1> QED
  BY <1>1, <1>2, <1>4 DEF Word

\* The bytes of a number are what it is made of.
LEMMA BytesOfNumber ==
  ASSUME NEW a \in Bytes, NEW b \in Bytes, NEW c \in Bytes, NEW d \in Bytes
  PROVE  /\ Number(a, b, c, d) \in 0..(Word - 1)
         /\ ToBytes(Number(a, b, c, d)) = <<a, b, c, d>>
<1> DEFINE p == a * Byte + b
           q == p * Byte + c
           u == q * Byte + d
<1>1. Byte \in Nat \ {0} /\ a \in Int /\ b \in Int /\ c \in Int /\ d \in Int
  BY ByteType DEF Bytes
<1>2. p \in 0..(Byte * Byte - 1)
  <2>1. a \in Nat /\ a \in 0..(Byte - 1)
    BY <1>1 DEF Bytes
  <2> QED
    BY <1>1, <2>1, Shifted
<1> HIDE DEF p
<1>3. q \in 0..(Byte * Byte * Byte - 1)
  <2>1. p \in Nat /\ Byte * Byte \in Nat
    BY <1>1, <1>2
  <2> QED
    BY <1>1, <1>2, <2>1, Shifted
<1>4. q = a * (Byte * Byte) + (b * Byte + c) /\ b * Byte + c \in 0..(Byte * Byte - 1)
  <2>1. 0 <= b * Byte /\ b * Byte <= (Byte - 1) * Byte
    BY <1>1 DEF Bytes
  <2>2. q = (a * Byte + b) * Byte + c
    BY DEF p
  <2> QED
    BY <1>1, <2>1, <2>2 DEF Bytes
<1> HIDE DEF q
<1>5. u \in 0..(Word - 1)
  <2>1. q \in Nat /\ Byte * Byte * Byte \in Nat
    BY <1>1, <1>3
  <2> QED
    BY <1>1, <1>3, <2>1, Shifted DEF Word
<1>6. Number(a, b, c, d) = u
  BY DEF Number, p, q
<1>7. u \div Byte = q /\ u % Byte = d
  BY <1>1, <1>3, QuotientIs DEF Bytes
<1>8. q \div Byte = p /\ q % Byte = c /\ p \div Byte = a /\ p % Byte = b
  <2>0. q \in Int /\ p \in Int
    BY <1>1, <1>2, <1>3
  <2>1. q = p * Byte + c /\ p = a * Byte + b
    BY DEF q, p
  <2>2. c \in 0..(Byte - 1) /\ b \in 0..(Byte - 1)
    BY DEF Bytes
  <2> HIDE DEF Bytes
  <2>3. q \div Byte = p /\ q % Byte = c
    BY <1>1, <2>0, <2>1, <2>2, Divided
  <2>4. p \div Byte = a /\ p % Byte = b
    BY <1>1, <2>0, <2>1, <2>2, Divided
  <2> QED
    BY <2>3, <2>4
<1>9. u \div (Byte * Byte) = p
  <2> DEFINE e == Byte * Byte
             r == c * Byte + d
  <2>1. 0 <= c * Byte /\ c * Byte <= (Byte - 1) * Byte
    BY <1>1 DEF Bytes
  <2>2. e \in Nat \ {0} /\ r \in 0..(e - 1)
    BY <1>1, <2>1 DEF Bytes
  <2>3. u = p * e + r
    BY <1>1, <1>2 DEF q
  <2> HIDE DEF e, r, u
  <2> QED
    BY <1>2, <2>2, <2>3, QuotientIs DEF e
<1>10. u \div (Byte * Byte * Byte) = a
  <2> DEFINE e == Byte * Byte * Byte
             s == b * Byte + c
             r == s * Byte + d
  <2>1. s \in 0..(Byte * Byte - 1)
    BY <1>4
  <2>2. q = a * (Byte * Byte) + s
    BY <1>4
  <2> HIDE DEF s
  <2>3. 0 <= s * Byte /\ s * Byte <= (Byte * Byte - 1) * Byte
    BY <1>1, <2>1
  <2>4. e \in Nat \ {0} /\ r \in 0..(e - 1)
    BY <1>1, <2>1, <2>3 DEF Bytes
  <2>5. u = a * e + r
    BY <1>1, <2>1, <2>2
  <2> HIDE DEF e, r, u
  <2> QED
    BY <1>1, <2>4, <2>5, QuotientIs DEF e
<1> HIDE DEF u
<1>11. u % Word = u
  BY <1>5, ByteType
<1> QED
  BY <1>5, <1>6, <1>7, <1>8, <1>9, <1>10, <1>11 DEF ToBytes

\* Every number that fits is made of bytes.
LEMMA NumberHasBytes ==
  ASSUME NEW u \in 0..(Word - 1)
  PROVE  \E a, b, c, d \in Bytes : u = Number(a, b, c, d)
<1> DEFINE q == u \div Byte
           p == q \div Byte
<1>1. Byte \in Nat \ {0} /\ u \in Nat /\ Byte * Byte \in Nat /\ Byte * Byte * Byte \in Nat
  BY ByteType
<1>2. u < (Byte * Byte * Byte) * Byte
  BY ByteType DEF Word
<1>3. q \in 0..(Byte * Byte * Byte - 1) /\ u % Byte \in Bytes /\ u = q * Byte + (u % Byte)
  BY <1>1, <1>2, QuotientLess DEF Bytes
<1> HIDE DEF q
<1>4. q \in Nat /\ q < (Byte * Byte) * Byte
  BY <1>1, <1>3
<1>5. p \in 0..(Byte * Byte - 1) /\ q % Byte \in Bytes /\ q = p * Byte + (q % Byte)
  BY <1>1, <1>4, QuotientLess DEF Bytes
<1> HIDE DEF p
<1>6. p \in Nat /\ p < Byte * Byte
  BY <1>1, <1>5
<1>7. p \div Byte \in Bytes /\ p % Byte \in Bytes /\ p = (p \div Byte) * Byte + (p % Byte)
  BY <1>1, <1>6, QuotientLess DEF Bytes
<1> QED
  BY <1>3, <1>5, <1>7 DEF Number


\* What is encoded is decoded.
LEMMA UnsignedIsReadBack ==
  ASSUME NEW u \in 0..(Word - 1)
  PROVE  ToBytes(u) \in Seq(Bytes) /\ Len(ToBytes(u)) = 4 /\ Unsigned(ToBytes(u)) = u
<1>1. PICK a \in Bytes, b \in Bytes, c \in Bytes, d \in Bytes : u = Number(a, b, c, d)
  BY NumberHasBytes
<1>2. ToBytes(u) = <<a, b, c, d>>
  BY <1>1, BytesOfNumber
<1>3. Unsigned(<<a, b, c, d>>) = Number(a, b, c, d)
  BY DEF Unsigned, Number
<1> QED
  BY <1>1, <1>2, <1>3

\* Every 32-bit integer is four bytes, from which it is read back.
LEMMA IntegerIsReadBack ==
  ASSUME NEW k, IsI32(k)
  PROVE  /\ ToBytes(k) \in Seq(Bytes) /\ Len(ToBytes(k)) = 4
         /\ FromBytes(ToBytes(k)) = k
<1> DEFINE u == k % Word
           h == Word \div 2
<1>1. Word \in Nat \ {0}
  BY ByteType
<1>2. k \in Int /\ k \in (-h)..(h - 1)
  BY <1>1 DEF IsI32
<1>3. h \in Nat /\ (Word = 2 * h \/ Word = 2 * h + 1)
  BY <1>1
<1>4. u \in 0..(Word - 1) /\ (u = k \/ u = k + Word) /\ (u = k <=> k >= 0)
  BY <1>1, <1>2, <1>3
<1>5. u % Word = u
  BY <1>1, <1>4
<1>6. ToBytes(k) = ToBytes(u)
  BY <1>5 DEF ToBytes
<1> HIDE DEF u, h
<1>7. ToBytes(u) \in Seq(Bytes) /\ Len(ToBytes(u)) = 4 /\ Unsigned(ToBytes(u)) = u
  BY <1>4, UnsignedIsReadBack
<1>8. FromBytes(ToBytes(u)) = (IF u >= h THEN u - Word ELSE u)
  BY <1>7 DEF FromBytes, h
<1> QED
  BY <1>1, <1>2, <1>3, <1>4, <1>6, <1>7, <1>8

-----------------------------------------------------------------------------
(* What is stored. *)

\* The first four bytes are what the number is read from.
LEMMA FirstFour ==
  ASSUME NEW b, NEW c, \A i \in 1..4 : b[i] = c[i]
  PROVE  Unsigned(b) = Unsigned(c) /\ FromBytes(b) = FromBytes(c)
<1>1. Unsigned(b) = Unsigned(c)
  BY DEF Unsigned
<1> QED
  BY <1>1 DEF FromBytes

\* A value is decoded by its tag.
LEMMA Decoding ==
  ASSUME NEW buf, NEW b, buf # <<>>, b = Tail(buf)
  PROVE  /\ buf[1] = "B" /\ b # <<>> /\ b[1] = "T" => FromValue(buf) = Bool(TRUE)
         /\ buf[1] = "B" /\ b # <<>> /\ b[1] = "F" => FromValue(buf) = Bool(FALSE)
         /\ buf[1] = "I" /\ Len(b) >= 4 => FromValue(buf) = Integer(FromBytes(b))
         /\ buf[1] = "S" => FromValue(buf) = DecodeString(b)
         /\ buf[1] = "C" => FromValue(buf) = DecodeColor(b)
<1>1. ASSUME buf[1] = "B", b # <<>>, b[1] = "T"
      PROVE FromValue(buf) = Bool(TRUE)
  BY <1>1 DEF FromValue, Bool
<1>2. ASSUME buf[1] = "B", b # <<>>, b[1] = "F"
      PROVE FromValue(buf) = Bool(FALSE)
  BY <1>2 DEF FromValue, Bool
<1>3. ASSUME buf[1] = "I", Len(b) >= 4
      PROVE FromValue(buf) = Integer(FromBytes(b))
  BY <1>3 DEF FromValue
<1>4. ASSUME buf[1] = "S"
      PROVE FromValue(buf) = DecodeString(b)
  BY <1>4 DEF FromValue
<1>5. ASSUME buf[1] = "C"
      PROVE FromValue(buf) = DecodeColor(b)
  BY <1>5 DEF FromValue
<1> QED
  BY <1>1, <1>2, <1>3, <1>4, <1>5

\* A color is decoded by its length.
LEMMA DecodingColors ==
  ASSUME NEW b
  PROVE  /\ Len(b) = 2 => DecodeColor(b) = Ccta(b[1] * 100, b[2])
         /\ Len(b) = 4 => DecodeColor(b) = Rgba(b)
  BY DEF DecodeColor

\* Values of each type are read back as they were stored: booleans,
LEMMA BoolReadBack ==
  ASSUME NEW b \in BOOLEAN
  PROVE  StoredIsReadBack(Bool(b))
<1> DEFINE t == IF b THEN "T" ELSE "F"
           buf == <<"B", t>>
<1>1. ToRedis(Bool(b)) = buf
  BY DEF ToRedis, Bool
<1>2. buf # <<>> /\ buf[1] = "B" /\ Tail(buf) = <<t>> /\ <<t>> # <<>> /\ <<t>>[1] = t
  OBVIOUS
<1> HIDE DEF buf
<1>3. FromValue(buf) = Bool(b)
  <2>1. CASE b
    <3>1. t = "T" /\ Bool(b) = Bool(TRUE)
      BY <2>1 DEF Bool
    <3> QED
      BY <1>2, <3>1, Decoding
  <2>2. CASE ~b
    <3>1. t = "F" /\ Bool(b) = Bool(FALSE)
      BY <2>2 DEF Bool
    <3> QED
      BY <1>2, <3>1, Decoding
  <2> QED
    BY <2>1, <2>2
<1> QED
  BY <1>1, <1>3 DEF StoredIsReadBack, Bool

\* floats,
LEMMA FloatReadBack ==
  ASSUME NEW x
  PROVE  StoredIsReadBack(Float(x))
<1> DEFINE buf == <<"D", x>>
<1>1. ToRedis(Float(x)) = buf
  BY DEF ToRedis, Float
<1>2. buf # <<>> /\ buf[1] = "D" /\ Tail(buf) = <<x>> /\ Tail(buf) # <<>> /\ Tail(buf)[1] = x
  OBVIOUS
<1> HIDE DEF buf
<1>3. FromValue(buf) = Float(x)
  BY <1>2 DEF FromValue
<1> QED
  BY <1>1, <1>3 DEF StoredIsReadBack, Float

\* What follows the tag.
LEMMA Tagged ==
  ASSUME NEW tag, NEW S, NEW t \in Seq(S)
  PROVE  LET buf == <<tag>> \o t IN buf # <<>> /\ buf[1] = tag /\ Tail(buf) = t
<1> DEFINE X == S \union {tag}
           one == <<tag>>
           buf == one \o t
<1>1. t \in Seq(X) /\ one \in Seq(X) /\ Len(one) = 1 /\ one[1] = tag /\ Len(t) \in Nat
  <2>1. S \subseteq X
    OBVIOUS
  <2>2. t \in Seq(X)
    BY <2>1, SeqMonotonic
  <2> QED
    BY <2>2
<1> HIDE DEF X, one
<1>2. /\ buf \in Seq(X) /\ Len(buf) = 1 + Len(t) /\ buf[1] = tag
      /\ \A i \in 2..(1 + Len(t)) : buf[i] = t[i - 1]
  <2>1. /\ buf \in Seq(X) /\ Len(buf) = Len(one) + Len(t)
        /\ \A i \in 1..(Len(one) + Len(t)) : buf[i] = IF i <= Len(one) THEN one[i] ELSE t[i - Len(one)]
    BY <1>1, ConcatProperties
  <2> HIDE DEF buf
  <2> QED
    BY <1>1, <2>1
<1> HIDE DEF buf
<1>3. buf # <<>>
  BY <1>1, <1>2, EmptySeq
<1>4. /\ Tail(buf) \in Seq(X) /\ Len(Tail(buf)) = Len(t)
      /\ \A i \in 1..Len(t) : Tail(buf)[i] = buf[i + 1]
  <2>1. /\ Tail(buf) \in Seq(X) /\ Len(Tail(buf)) = Len(buf) - 1
        /\ \A i \in 1..Len(Tail(buf)) : Tail(buf)[i] = buf[i + 1]
    BY <1>2, <1>3, HeadTailProperties
  <2> QED
    BY <1>1, <1>2, <2>1
<1>5. \A i \in 1..Len(t) : Tail(buf)[i] = t[i]
  BY <1>1, <1>2, <1>4
<1>6. Tail(buf) = t
  BY <1>1, <1>4, <1>5, SeqEqual
<1> QED
  BY <1>2, <1>3, <1>6 DEF buf, one

\* integers,
LEMMA IntegerReadBack ==
  ASSUME NEW k, IsI32(k)
  PROVE  StoredIsReadBack(Integer(k))
<1> DEFINE t == ToBytes(k)
           buf == <<"I">> \o t
<1>1. ToRedis(Integer(k)) = buf
  BY DEF ToRedis, Integer
<1>2. t \in Seq(Bytes) /\ Len(t) >= 4 /\ FromBytes(t) = k
  BY IntegerIsReadBack
<1> HIDE DEF t
<1>3. buf # <<>> /\ buf[1] = "I" /\ Tail(buf) = t
  BY <1>2, Tagged
<1> HIDE DEF buf
<1>4. FromValue(buf) = Integer(k)
  BY <1>2, <1>3, Decoding
<1> QED
  BY <1>1, <1>4 DEF StoredIsReadBack, Integer

\* colors of four channels,
LEMMA ColorReadBack ==
  ASSUME NEW S, NEW c \in Seq(S), Len(c) = 4
  PROVE  StoredIsReadBack(Rgba(c))
<1> DEFINE buf == <<"C">> \o c
<1>1. ToRedis(Rgba(c)) = buf
  BY DEF ToRedis, Rgba
<1>2. buf # <<>> /\ buf[1] = "C" /\ Tail(buf) = c
  BY Tagged
<1> HIDE DEF buf
<1>3. FromValue(buf) = Rgba(c)
  BY <1>2, Decoding, DecodingColors
<1> QED
  BY <1>1, <1>3 DEF StoredIsReadBack, Rgba

\* temperatures, but for their hundreds and what exceeds a byte,
LEMMA TemperatureReadBack ==
  ASSUME NEW k \in Nat, NEW a
  PROVE  StoredIsReadBack(Ccta(k, a))
<1> DEFINE h == k \div 100
           b == <<h % Byte, a>>
           buf == <<"C", h % Byte, a>>
<1>1. ToRedis(Ccta(k, a)) = buf
  BY DEF ToRedis, Ccta
<1>2. h \in Nat
  OBVIOUS
<1>3. buf # <<>> /\ buf[1] = "C" /\ Tail(buf) = b /\ Len(b) = 2 /\ b[1] = h % Byte /\ b[2] = a
  OBVIOUS
<1> HIDE DEF buf, b, h
<1>4. ASSUME h < Byte
      PROVE  FromValue(buf) = Ccta(100 * h, a)
  <2>1. h % Byte = h /\ h * 100 = 100 * h
    BY <1>2, <1>4, ByteType
  <2>2. FromValue(buf) = DecodeColor(b)
    BY <1>3, Decoding
  <2>3. DecodeColor(b) = Ccta(b[1] * 100, b[2])
    BY <1>3, DecodingColors
  <2> QED
    BY <1>3, <2>1, <2>2, <2>3
<1>5. Ccta(k, a).type = "ccta" /\ Ccta(k, a).v[1] = k /\ Ccta(k, a).v[2] = a
  BY DEF Ccta
<1> QED
  BY <1>1, <1>4, <1>5 DEF StoredIsReadBack, h

\* and strings whose length fits.
LEMMA TextReadBack ==
  ASSUME NEW s \in Seq(Nat), Len(s) < Word
  PROVE  StoredIsReadBack(Text(s))
<1> DEFINE n == Len(s)
           t == ToBytes(n)
           b == t \o s
           buf == <<"S">> \o t \o s
<1>1. ToRedis(Text(s)) = buf
  BY DEF ToRedis, Text
<1>2. n \in Nat /\ n \in 0..(Word - 1)
  BY ByteType
<1>3. t \in Seq(Nat) /\ Len(t) = 4 /\ Unsigned(t) = n
  <2>1. Bytes \subseteq Nat
    BY ByteType DEF Bytes
  <2>2. t \in Seq(Bytes) /\ Len(t) = 4 /\ Unsigned(t) = n
    BY <1>2, UnsignedIsReadBack
  <2> HIDE DEF t
  <2> QED
    BY <2>1, <2>2, SeqMonotonic
<1> HIDE DEF t, n
<1>4. /\ b \in Seq(Nat) /\ Len(b) = 4 + n
      /\ \A i \in 1..(4 + n) : b[i] = IF i <= 4 THEN t[i] ELSE s[i - 4]
  <2>1. n = Len(s)
    BY DEF n
  <2>2. /\ b \in Seq(Nat) /\ Len(b) = Len(t) + Len(s)
        /\ \A i \in 1..(Len(t) + Len(s)) : b[i] = IF i <= Len(t) THEN t[i] ELSE s[i - Len(t)]
    BY <1>3, ConcatProperties
  <2> HIDE DEF b
  <2> QED
    BY <1>2, <1>3, <2>1, <2>2
<1>5. buf = <<"S">> \o b
  <2> DEFINE X == Nat \union {"S"}
  <2>1. t \in Seq(X) /\ s \in Seq(X) /\ <<"S">> \in Seq(X)
    <3>1. Nat \subseteq X
      OBVIOUS
    <3>2. t \in Seq(X) /\ s \in Seq(X)
      BY <1>3, <3>1, SeqMonotonic
    <3> QED
      BY <3>2
  <2> HIDE DEF X
  <2> QED
    BY <2>1, ConcatAssociative
<1> HIDE DEF b, buf
<1>6. buf # <<>> /\ buf[1] = "S" /\ Tail(buf) = b
  BY <1>4, <1>5, Tagged
<1>7. Unsigned(b) = n
  <2>1. \A i \in 1..4 : b[i] = t[i]
    BY <1>2, <1>4
  <2> QED
    BY <1>3, <2>1, FirstFour
<1>8. SubSeq(b, 5, 4 + n) = s
  <2> DEFINE u == SubSeq(b, 5, 4 + n)
  <2>1. \A i \in 5..(4 + n) : b[i] \in Nat
    BY <1>2, <1>4, ElementOfSeq
  <2>2. /\ u \in Seq(Nat) /\ Len(u) = (IF 5 <= 4 + n THEN 4 + n - 5 + 1 ELSE 0)
        /\ \A i \in 1..(4 + n - 5 + 1) : u[i] = b[5 + i - 1]
    BY <1>2, <2>1, SubSeqProperties
  <2> HIDE DEF u
  <2>3. Len(u) = Len(s) /\ \A i \in 1..Len(u) : u[i] = s[i]
    <3>1. Len(u) = n
      BY <1>2, <2>2
    <3>2. ASSUME NEW i \in 1..n PROVE u[i] = s[i]
      <4>1. i \in Int /\ 5 + i - 1 = 4 + i /\ 4 + i - 4 = i /\ ~ (4 + i <= 4)
        BY <1>2
      <4>2. i \in 1..(4 + n - 5 + 1) /\ 4 + i \in 1..(4 + n)
        BY <1>2, <4>1
      <4>3. u[i] = b[4 + i]
        BY <2>2, <4>1, <4>2
      <4>4. b[4 + i] = s[i]
        BY <1>4, <4>1, <4>2
      <4> QED
        BY <4>3, <4>4
    <3> QED
      BY <3>1, <3>2 DEF n
  <2>4. u = s
    BY <2>2, <2>3, SeqEqual
  <2> QED
    BY <2>4 DEF u
<1>9. FromValue(buf) = Text(s)
  <2>1. Len(b) >= 4 /\ Len(b) >= 4 + Unsigned(b)
    BY <1>2, <1>4, <1>7
  <2>2. DecodeString(b) = Text(SubSeq(b, 5, 4 + Unsigned(b)))
    BY <2>1 DEF DecodeString
  <2> QED
    BY <1>6, <1>7, <1>8, <2>2, Decoding
<1> QED
  BY <1>1, <1>9 DEF StoredIsReadBack, Text

\* What a device has is read back.
LEMMA StoredReadBack ==
  ASSUME NEW v \in Stored
  PROVE  StoredIsReadBack(v)
<1>1. CASE v \in {Bool(b) : b \in BOOLEAN}
  BY <1>1, BoolReadBack
<1>2. CASE v \in {Integer(k) : k \in Integers32}
  BY <1>2, IntegerReadBack DEF Integers32
<1>3. CASE v \in {Float(x) : x \in Floats}
  BY <1>3, FloatReadBack
<1>4. CASE v \in {Text(s) : s \in Texts}
  BY <1>4, ValuesAssumption, TextReadBack
<1>5. CASE v \in {Rgba(c) : c \in Shades}
  <2>1. PICK c \in [1..4 -> 0..(Byte - 1)] : v = Rgba(c)
    BY <1>5, ValuesAssumption
  <2>2. c \in Seq(0..(Byte - 1)) /\ Len(c) = 4
    <3> DEFINE S == 0..(Byte - 1)
    <3>1. c \in [1..4 -> S]
      OBVIOUS
    <3> HIDE DEF S
    <3>2. Seq(S) = UNION {[1..n -> S] : n \in Nat}
      BY SeqDef
    <3>3. c \in Seq(S)
      BY <3>1, <3>2
    <3>4. Len(c) = 4
      BY <3>1, <3>3, LenProperties
    <3> QED
      BY <3>3, <3>4 DEF S
  <2> QED
    BY <2>1, <2>2, ColorReadBack
<1>6. CASE v \in {Ccta(k, a) : k \in Kelvins, a \in 0..(Byte - 1)}
  BY <1>6, ValuesAssumption, TemperatureReadBack
<1> QED
  BY <1>1, <1>2, <1>3, <1>4, <1>5, <1>6 DEF Stored

-----------------------------------------------------------------------------
(* What is set. *)

LEMMA OneField ==
  ASSUME NEW field, NEW val
  PROVE  Given(One(field, val)) = {field} /\ One(field, val)[field] = val
BY DEF Given, One

\* What a setting says.
LEMMA Said ==
  ASSUME NEW data
  PROVE  /\ Given(data) = {"int"} => ValueOf(data) = Integer(data["int"][1])
         /\ Given(data) = {"flt"} => ValueOf(data) = Float(data["flt"][1])
         /\ Given(data) = {"bool"} => ValueOf(data) = Bool(data["bool"][1] = 1)
         /\ Given(data) = {"str"} => ValueOf(data) = Text(data["str"])
         /\ Given(data) = {"color"} => ValueOf(data) = ColorOf(data["color"])
         /\ (\A f \in Fields : Given(data) # {f}) => ValueOf(data) = TypeError
<1>1. /\ {"int"} # {"flt"} /\ {"int"} # {"bool"} /\ {"int"} # {"str"} /\ {"int"} # {"color"}
      /\ {"flt"} # {"bool"} /\ {"flt"} # {"str"} /\ {"flt"} # {"color"}
      /\ {"bool"} # {"str"} /\ {"bool"} # {"color"} /\ {"str"} # {"color"}
  OBVIOUS
<1>2. CASE Given(data) = {"int"}
  BY <1>1, <1>2 DEF ValueOf, Fields
<1>3. CASE Given(data) = {"flt"}
  BY <1>1, <1>3 DEF ValueOf, Fields
<1>4. CASE Given(data) = {"bool"}
  <2>1. ValueOf(data) = Bool(data["bool"][1] = 1)
    BY <1>1, <1>4 DEF ValueOf
  <2> QED
    BY <1>1, <1>4, <2>1 DEF Fields
<1>5. CASE Given(data) = {"str"}
  BY <1>1, <1>5 DEF ValueOf, Fields
<1>6. CASE Given(data) = {"color"}
  BY <1>1, <1>6 DEF ValueOf, Fields
<1>7. CASE \A f \in Fields : Given(data) # {f}
  <2>1. /\ Given(data) # {"int"} /\ Given(data) # {"flt"} /\ Given(data) # {"bool"}
        /\ Given(data) # {"str"} /\ Given(data) # {"color"}
    BY <1>7 DEF Fields
  <2>2. ValueOf(data) = TypeError
    BY <2>1 DEF ValueOf
  <2> QED
    BY <2>1, <2>2
<1>8. CASE \E f \in Fields : Given(data) = {f}
  BY <1>2, <1>3, <1>4, <1>5, <1>6, <1>8 DEF Fields
<1> QED
  BY <1>7, <1>8

\* What is vague is refused.
LEMMA VagueRefused ==
  ASSUME NEW data, NEW T, ValueOf(data) = TypeError
  PROVE  ShownAsSet(data, T)
BY DEF ShownAsSet, SetDevice

\* A setting that is no color is shown as it was set.
LEMMA ScalarShown ==
  ASSUME NEW data, NEW T, NEW v, v = ValueOf(data), v.type \notin {"rgba", "ccta"},
         data = One(v.type, v.v), StoredIsReadBack(v)
  PROVE  ShownAsSet(data, T)
<1>1. FromValue(ToRedis(v)) = v
  BY DEF StoredIsReadBack
<1>2. ShownInReply(v) = data
  BY DEF ShownInReply
<1>3. ShownToMonitor(v) = data
  BY DEF ShownToMonitor
<1>4. ShownInInfo(v) = data
  <2>1. v.type # "rgba" /\ v.type \notin {"rgba", "ccta"}
    OBVIOUS
  <2>2. ShownInInfo(v) = One(v.type, v.v)
    BY <2>1 DEF ShownInInfo
  <2> QED
    BY <2>2
<1>5. SetDevice(data, T) = IF v # TypeError /\ Converts(T, v) THEN data ELSE Refused
  BY <1>2 DEF SetDevice
<1> QED
  BY <1>1, <1>3, <1>4, <1>5 DEF ShownAsSet

\* A color is refused, or shown as it was set, with the components it had.
LEMMA ColorShown ==
  ASSUME NEW c \in Seq(Int), NEW T
  PROVE  ShownAsSet(One("color", c), T)
<1> DEFINE data == One("color", c)
           d == IF Len(c) = 3 THEN c \o <<Byte - 1>> ELSE c
           o == <<d[1], d[2], d[3]>>
           v == Rgba(d)
           reply == IF d[4] = Byte - 1 THEN One("color", o) ELSE data
<1>1. ValueOf(data) = ColorOf(c)
  BY OneField, Said
<1>2. CASE ColorOf(c) = TypeError
  BY <1>1, <1>2, VagueRefused
<1>3. CASE ColorOf(c) # TypeError
  <2>1. Byte - 1 \in 0..(Byte - 1) /\ Byte - 1 \in Int
    BY ByteType
  <2>2. /\ Len(c) \in {3, 4} /\ \A i \in DOMAIN c : c[i] \in 0..(Byte - 1)
        /\ ColorOf(c) = v
    BY <1>3 DEF ColorOf
  <2>3. /\ d \in Seq(Int) /\ Len(d) = 4 /\ \A i \in 1..4 : d[i] \in 0..(Byte - 1)
        /\ Len(c) = 3 => d[4] = Byte - 1 /\ \A i \in 1..3 : d[i] = c[i]
        /\ Len(c) = 4 => d = c
    <3>1. CASE Len(c) = 3
      <4> DEFINE e == <<Byte - 1>>
      <4>1. e \in Seq(Int) /\ Len(e) = 1 /\ e[1] = Byte - 1
        BY <2>1
      <4> HIDE DEF e
      <4> DEFINE g == c \o e
      <4>2. d = g
        BY <3>1 DEF e
      <4>3. /\ g \in Seq(Int) /\ Len(g) = Len(c) + Len(e)
            /\ \A i \in 1..(Len(c) + Len(e)) : g[i] = IF i <= Len(c) THEN c[i] ELSE e[i - Len(c)]
        BY <4>1, ConcatProperties
      <4> HIDE DEF d, g
      <4>4. DOMAIN c = 1..3
        BY <3>1, LenProperties
      <4> QED
        BY <2>1, <2>2, <3>1, <4>1, <4>2, <4>3, <4>4
    <3>2. CASE Len(c) = 4
      <4>1. DOMAIN c = 1..4 /\ d = c
        BY <3>2, LenProperties
      <4> QED
        BY <2>2, <3>2, <4>1
    <3> QED
      BY <2>2, <3>1, <3>2
  <2> HIDE DEF d
  <2>4. StoredIsReadBack(v)
    BY <2>3, ColorReadBack
  <2>5. v.type = "rgba" /\ v.v = d
    BY DEF Rgba
  <2> HIDE DEF v
  <2>6. FromValue(ToRedis(v)) = v
    BY <2>4, <2>5 DEF StoredIsReadBack
  <2>7. SubSeq(d, 1, 3) = o
    <3> DEFINE x == SubSeq(d, 1, 3)
    <3>1. \A i \in 1..3 : d[i] \in Int
      BY <2>3
    <3>2. /\ x \in Seq(Int) /\ Len(x) = (IF 1 <= 3 THEN 3 - 1 + 1 ELSE 0)
          /\ \A i \in 1..(3 - 1 + 1) : x[i] = d[1 + i - 1]
      BY <3>1, SubSeqProperties
    <3> HIDE DEF x
    <3>3. Len(x) = 3 /\ \A i \in 1..3 : x[i] = o[i]
      BY <3>2
    <3>4. o \in Seq(Int) /\ Len(o) = 3
      BY <3>1
    <3> HIDE DEF o
    <3>5. x = o
      BY <3>2, <3>3, <3>4, SeqEqual
    <3> QED
      BY <3>5 DEF x
  <2>8. \/ ColorOf(o) = v /\ d[4] = Byte - 1
        \/ d[4] # Byte - 1 /\ d = c
    <3>1. CASE d[4] = Byte - 1
      <4>1. o \in Seq(Int) /\ Len(o) = 3 /\ DOMAIN o = 1..3 /\ \A i \in 1..3 : o[i] = d[i]
        BY <2>3
      <4> HIDE DEF o
      <4>2. ColorOf(o) = Rgba(o \o <<Byte - 1>>)
        BY <2>3, <4>1 DEF ColorOf
      <4>3. o \o <<Byte - 1>> = d
        <5> DEFINE e == <<Byte - 1>>
                   x == o \o e
        <5>1. e \in Seq(Int) /\ Len(e) = 1 /\ e[1] = Byte - 1
          BY <2>1
        <5> HIDE DEF e
        <5>2. /\ x \in Seq(Int) /\ Len(x) = Len(o) + Len(e)
              /\ \A i \in 1..(Len(o) + Len(e)) : x[i] = IF i <= Len(o) THEN o[i] ELSE e[i - Len(o)]
          BY <4>1, <5>1, ConcatProperties
        <5> HIDE DEF x
        <5>3. Len(x) = 4 /\ \A i \in 1..4 : x[i] = d[i]
          BY <2>3, <3>1, <4>1, <5>1, <5>2
        <5>4. x = d
          BY <2>3, <5>2, <5>3, SeqEqual
        <5> QED
          BY <5>4 DEF x, e
      <4> QED
        BY <3>1, <4>2, <4>3 DEF v
    <3>2. CASE d[4] # Byte - 1
      BY <2>2, <2>3, <3>2
    <3> QED
      BY <3>1, <3>2
  <2>9. ShownInReply(v) = reply
    <3>1. d[4] # Byte - 1 => d = c
      BY <2>8
    <3> QED
      BY <2>5, <2>7, <3>1 DEF ShownInReply
  <2>10. ValueOf(reply) = v
    <3>1. ValueOf(One("color", o)) = ColorOf(o)
      BY OneField, Said
    <3> QED
      BY <1>1, <2>2, <2>8, <3>1
  <2>11. ShownToMonitor(v) = reply
    <3>1. d[4] < Byte - 1 <=> d[4] # Byte - 1
      BY <2>1, <2>3
    <3>2. d[4] # Byte - 1 => d = c
      BY <2>8
    <3> QED
      BY <2>5, <2>7, <3>1, <3>2 DEF ShownToMonitor
  <2>12. ShownInInfo(v) = reply
    <3>1. CASE d[4] = Byte - 1
      <4>1. v.v[4] = Byte - 1 /\ <<v.v[1], v.v[2], v.v[3]>> = o
        BY <2>5, <3>1
      <4>2. v.type = "rgba" /\ reply = One("color", o)
        BY <2>5, <3>1
      <4> HIDE DEF reply, o
      <4>3. ShownInInfo(v) = One("color", <<v.v[1], v.v[2], v.v[3]>>)
        BY <4>1, <4>2 DEF ShownInInfo
      <4> QED
        BY <4>1, <4>2, <4>3
    <3>2. CASE d[4] # Byte - 1
      <4>1. v.v[4] # Byte - 1 /\ v.type \in {"rgba", "ccta"} /\ v.v = c /\ reply = One("color", c)
        BY <2>5, <2>8, <3>2
      <4> HIDE DEF reply
      <4>2. ShownInInfo(v) = One("color", v.v)
        BY <4>1 DEF ShownInInfo
      <4> QED
        BY <4>1, <4>2
    <3> QED
      BY <3>1, <3>2
  <2>13. ValueOf(data) = v
    BY <1>1, <2>2
  <2>14. Given(data) = Given(reply)
    BY OneField
  <2>15. reply = data \/ reply = One("color", <<v.v[1], v.v[2], v.v[3]>>)
    BY <2>5
  <2> HIDE DEF data, reply
  <2>16. /\ SetDevice(data, T) = IF v # TypeError /\ Converts(T, v) THEN reply ELSE Refused
         /\ SetDevice(reply, T) = IF v # TypeError /\ Converts(T, v) THEN reply ELSE Refused
    BY <2>9, <2>10, <2>13 DEF SetDevice
  <2>17. ShownAsSet(data, T)
    BY <2>6, <2>10, <2>11, <2>12, <2>13, <2>14, <2>15, <2>16 DEF ShownAsSet
  <2> QED
    BY <2>17 DEF data
<1> QED
  BY <1>2, <1>3

\* A device is set to what is shown, and what it is set to is shown.
LEMMA SettingsShown ==
  ASSUME NEW data \in Settings, NEW T
  PROVE  ShownAsSet(data, T)
<1>1. CASE data \in {One("bool", <<b>>) : b \in {0, 1}}
  <2>1. PICK b \in {0, 1} : data = One("bool", <<b>>)
    BY <1>1
  <2>2. ValueOf(data) = Bool(b = 1)
    BY <2>1, OneField, Said
  <2>3. Bool(b = 1).type = "bool" /\ Bool(b = 1).v = <<b>>
    BY DEF Bool
  <2> QED
    BY <2>1, <2>2, <2>3, BoolReadBack, ScalarShown
<1>2. CASE data \in {One("int", <<k>>) : k \in Integers32}
  <2>1. PICK k \in Integers32 : data = One("int", <<k>>)
    BY <1>2
  <2>2. ValueOf(data) = Integer(k)
    BY <2>1, OneField, Said
  <2>3. Integer(k).type = "int" /\ Integer(k).v = <<k>>
    BY DEF Integer
  <2>4. StoredIsReadBack(Integer(k))
    BY IntegerReadBack DEF Integers32
  <2> QED
    BY <2>1, <2>2, <2>3, <2>4, ScalarShown
<1>3. CASE data \in {One("flt", <<x>>) : x \in Floats}
  <2>1. PICK x \in Floats : data = One("flt", <<x>>)
    BY <1>3
  <2>2. ValueOf(data) = Float(x)
    BY <2>1, OneField, Said
  <2>3. Float(x).type = "flt" /\ Float(x).v = <<x>>
    BY DEF Float
  <2> QED
    BY <2>1, <2>2, <2>3, FloatReadBack, ScalarShown
<1>4. CASE data \in {One("str", s) : s \in Texts}
  <2>1. PICK s \in Texts : data = One("str", s)
    BY <1>4
  <2>2. ValueOf(data) = Text(s)
    BY <2>1, OneField, Said
  <2>3. Text(s).type = "str" /\ Text(s).v = s
    BY DEF Text
  <2>4. StoredIsReadBack(Text(s))
    BY ValuesAssumption, TextReadBack
  <2> QED
    BY <2>1, <2>2, <2>3, <2>4, ScalarShown
<1>5. CASE data \in {One("color", c) : c \in Lists}
  BY <1>5, ValuesAssumption, ColorShown
<1>6. CASE data \in Vague
  <2>1. \A f \in Fields : Given(data) # {f}
    <3>1. PICK given \in {F \in SUBSET Fields : \A f \in Fields : F # {f}} : data \in [given -> {<<0>>}]
      BY <1>6 DEF Vague
    <3> QED
      BY <3>1 DEF Given
  <2>2. ValueOf(data) = TypeError
    BY <2>1, Said
  <2> QED
    BY <2>2, VagueRefused
<1> QED
  BY <1>1, <1>2, <1>3, <1>4, <1>5, <1>6 DEF Settings

-----------------------------------------------------------------------------
(* What is configured. *)

LEMMA Fits ==
  ASSUME NEW x \in 0..(Word - 1)
  PROVE  x % Word = x
BY ByteType

Digits == 0..(Hex - 1)
Pair(x, y) == x * Hex + y
Shift(n, b) == n * Byte + b

\* Two digits more are a byte more.
LEMMA TwoDigits ==
  ASSUME NEW n \in Nat, NEW x \in Digits, NEW y \in Digits
  PROVE  /\ Pair(x, y) \in Bytes /\ Shift(n, Pair(x, y)) = Pair(Pair(n, x), y)
         /\ Pair(n, x) \in 0..Shift(n, Pair(x, y)) /\ n \in 0..Shift(n, Pair(x, y))
         /\ Shift(n, Pair(x, y)) \in Nat
<1> DEFINE b == x * Hex + y
           m == n * Hex + x
<1>1. Hex \in Nat \ {0, 1} /\ Byte = Hex * Hex /\ Byte \in Nat \ {0} /\ x \in Nat /\ y \in Nat
  BY ByteType, ValuesAssumption DEF Digits
<1>2. b \in Bytes
  <2>1. 0 <= x * Hex /\ x * Hex <= (Hex - 1) * Hex
    BY <1>1 DEF Digits
  <2>2. (Hex - 1) * Hex = Byte - Hex
    BY <1>1
  <2> QED
    BY <1>1, <2>1, <2>2 DEF Bytes, Digits
<1>3. n * Byte + b = m * Hex + y
  <2>1. (n * Hex + x) * Hex = n * (Hex * Hex) + x * Hex
    BY <1>1
  <2> QED
    BY <1>1, <2>1
<1>4. m \in Nat /\ n <= m
  <2>1. n * Hex >= n
    BY <1>1
  <2> QED
    BY <1>1, <2>1
<1> HIDE DEF m, b
<1>5. m * Hex >= m
  BY <1>1, <1>4
<1>6. n * Byte + b \in Nat /\ m <= n * Byte + b
  BY <1>1, <1>3, <1>4, <1>5
<1> QED
  BY <1>2, <1>3, <1>4, <1>6 DEF m, b, Pair, Shift

\* The numbers on the way from digits to the number.
LEMMA DigitsAreBytes ==
  ASSUME NEW d \in [1..8 -> Digits]
  PROVE  /\ Pair(d[1], d[2]) \in Bytes /\ Pair(d[3], d[4]) \in Bytes
         /\ Pair(d[5], d[6]) \in Bytes /\ Pair(d[7], d[8]) \in Bytes
         /\ \E w \in [0..8 -> 0..(Word - 1)] :
              /\ w[0] = 0 /\ \A k \in 1..8 : w[k] = Pair(w[k - 1], d[k])
              /\ w[8] = Shift(w[6], Pair(d[7], d[8]))
              /\ ToBytes(w[8]) = <<Pair(d[1], d[2]), Pair(d[3], d[4]),
                                   Pair(d[5], d[6]), Pair(d[7], d[8])>>
<1> DEFINE b1 == Pair(d[1], d[2])
           b2 == Pair(d[3], d[4])
           b3 == Pair(d[5], d[6])
           b4 == Pair(d[7], d[8])
           w3 == Pair(b1, d[3])
           w4 == Shift(b1, b2)
           w5 == Pair(w4, d[5])
           w6 == Shift(w4, b3)
           w7 == Pair(w6, d[7])
           w8 == Shift(w6, b4)
           w == <<d[1], b1, w3, w4, w5, w6, w7, w8>>
<1>1. Byte \in Nat \ {0} /\ Word \in Nat \ {0} /\ Hex \in Nat \ {0, 1}
  BY ByteType
<1>2. /\ d[1] \in Digits /\ d[2] \in Digits /\ d[3] \in Digits /\ d[4] \in Digits
      /\ d[5] \in Digits /\ d[6] \in Digits /\ d[7] \in Digits /\ d[8] \in Digits
  OBVIOUS
<1>4. b1 \in Bytes /\ b2 \in Bytes /\ b3 \in Bytes /\ b4 \in Bytes
  BY <1>2, TwoDigits
<1>5. b1 \in Nat /\ 0 \in Nat
  BY <1>1, <1>4 DEF Bytes
<1>6. w4 = Pair(w3, d[4]) /\ w3 \in 0..w4 /\ b1 \in 0..w4 /\ w4 \in Nat
  BY <1>2, <1>5, TwoDigits
<1>7. w6 = Pair(w5, d[6]) /\ w5 \in 0..w6 /\ w4 \in 0..w6 /\ w6 \in Nat
  BY <1>2, <1>6, TwoDigits
<1>8. w8 = Pair(w7, d[8]) /\ w7 \in 0..w8 /\ w6 \in 0..w8 /\ w8 \in Nat
  BY <1>2, <1>7, TwoDigits
<1>9. d[1] = Pair(0, d[1]) /\ b1 = Pair(d[1], d[2]) /\ d[1] \in 0..b1
  <2>1. d[1] = Pair(0, d[1]) /\ Shift(0, b1) = b1
    BY <1>1, <1>2, <1>4, <1>5 DEF Pair, Shift, Digits
  <2>2. Pair(0, d[1]) \in 0..Shift(0, b1)
    BY <1>2, <1>5, TwoDigits
  <2> QED
    BY <2>1, <2>2
<1>10. w8 = Number(b1, b2, b3, b4)
  BY DEF Number, Shift
<1> HIDE DEF b1, b2, b3, b4
<1>11. w8 \in 0..(Word - 1) /\ ToBytes(w8) = <<b1, b2, b3, b4>>
  <2> HIDE DEF w8
  <2> QED
    BY <1>4, <1>10, BytesOfNumber
<1>12. w[1] = Pair(0, d[1]) /\ \A k \in 2..8 : w[k] = Pair(w[k - 1], d[k])
  <2>1. \A k \in 2..8 : k \in {2, 3, 4, 5, 6, 7, 8}
    OBVIOUS
  <2> QED
    BY <1>6, <1>7, <1>8, <1>9, <2>1
<1> HIDE DEF w3, w4, w5, w6, w7, w8
<1>13. \A k \in 1..8 : w[k] \in 0..(Word - 1)
  <2>1. w6 \in 0..(Word - 1) /\ w7 \in 0..(Word - 1)
    BY <1>1, <1>7, <1>8, <1>11
  <2>2. w5 \in 0..(Word - 1) /\ w4 \in 0..(Word - 1)
    BY <1>1, <1>6, <1>7, <2>1
  <2>3. w3 \in 0..(Word - 1) /\ b1 \in 0..(Word - 1)
    BY <1>1, <1>6, <2>2
  <2>4. d[1] \in 0..(Word - 1)
    BY <1>1, <1>9, <2>3
  <2>5. \A k \in 1..8 : k \in {1, 2, 3, 4, 5, 6, 7, 8}
    OBVIOUS
  <2> QED
    BY <1>11, <2>1, <2>2, <2>3, <2>4, <2>5
<1>14. w[8] = Shift(w[6], b4)
  BY DEF w8
<1>15. ToBytes(w[8]) = <<b1, b2, b3, b4>>
  BY <1>11
<1> HIDE DEF w
<1> DEFINE x == [k \in 0..8 |-> IF k = 0 THEN 0 ELSE w[k]]
<1>16. x[0] = 0 /\ \A k \in 1..8 : x[k] = w[k]
  OBVIOUS
<1>17. x \in [0..8 -> 0..(Word - 1)]
  BY <1>1, <1>13
<1> HIDE DEF x
<1>18. \A k \in 1..8 : x[k] = Pair(x[k - 1], d[k])
  <2> TAKE k \in 1..8
  <2>1. CASE k = 1
    BY <1>12, <1>16, <2>1
  <2>2. CASE k \in 2..8
    <3>1. k - 1 \in 1..8
      BY <2>2
    <3> QED
      BY <1>12, <1>16, <2>2, <3>1
  <2> QED
    BY <2>1, <2>2
<1>19. x[8] = Shift(x[6], b4) /\ ToBytes(x[8]) = <<b1, b2, b3, b4>>
  BY <1>14, <1>15, <1>16
<1> QED
  BY <1>4, <1>16, <1>17, <1>18, <1>19 DEF b1, b2, b3, b4

\* Counting to six or eight.
LEMMA Counted ==
  ASSUME NEW n \in {6, 8}
  PROVE  /\ \A k \in 1..n : k \in 1..8 /\ k \in 0..8 /\ k \in 0..n /\ k # 0 /\ k - 1 \in 0..n
         /\ 0 \in 0..n /\ \A k \in 0..n : k # 0 => k \in 1..n
         /\ \A k \in 0..(n - 1) : k + 1 \in 1..n /\ k + 1 - 1 = k
         /\ \A k \in 1..(n \div 2) : k \in 1..4 /\ 2 * k - 1 \in 1..n /\ 2 * k \in 1..n
<1>1. CASE n = 6
  BY <1>1
<1>2. CASE n = 8
  BY <1>2
<1> QED
  BY <1>1, <1>2

\* What holds at 0 and of every next number holds at six, and at eight.
LEMMA StepByStep ==
  ASSUME NEW n \in {6, 8}, NEW S, 0 \in S, \A k \in 0..(n - 1) : k \in S => k + 1 \in S
  PROVE  6 \in S /\ (n = 8 => 8 \in S)
<1>1. /\ 0 \in 0..(n - 1) /\ 1 \in 0..(n - 1) /\ 2 \in 0..(n - 1)
      /\ 3 \in 0..(n - 1) /\ 4 \in 0..(n - 1) /\ 5 \in 0..(n - 1)
      /\ n = 8 => 6 \in 0..(n - 1) /\ 7 \in 0..(n - 1)
  OBVIOUS
<1>2. 0 + 1 \in S
  BY <1>1
<1>3. 1 + 1 \in S /\ 2 + 1 \in S
  BY <1>1, <1>2
<1>4. 3 + 1 \in S /\ 4 + 1 \in S
  BY <1>1, <1>3
<1>5. 5 + 1 \in S
  BY <1>1, <1>4
<1>6. n = 8 => 6 + 1 \in S /\ 7 + 1 \in S
  BY <1>1, <1>5
<1> QED
  BY <1>5, <1>6

\* No digit is too large.
LEMMA DigitsAreLess ==
  ASSUME NEW x \in Digits
  PROVE  ~ (x >= Hex)
BY ByteType DEF Digits

\* The last of the bytes before a limit.
LEMMA LastByte ==
  ASSUME NEW x \in 0..(Word - 1)
  PROVE  x * Byte + Byte - 1 = x * Byte + (Byte - 1)
<1>1. x \in Int /\ Byte \in Int
  BY ByteType
<1>2. x * Byte \in Int
  BY <1>1
<1> QED
  BY <1>1, <1>2

\* Six or eight digits are three or four bytes.
LEMMA ColorParsed ==
  ASSUME NEW s \in Seq(Nat), Len(s) \in {6, 8}, \A i \in 1..Len(s) : s[i] < Hex
  PROVE  \E b \in [1..4 -> Bytes] :
           /\ \A k \in 1..(Len(s) \div 2) : b[k] = Pair(s[2 * k - 1], s[2 * k])
           /\ Len(s) = 6 => b[4] = Byte - 1
           /\ ParseColor(s) = Rgba(<<b[1], b[2], b[3], b[4]>>)
<1> DEFINE n == Len(s)
           d == [i \in 1..8 |-> IF i <= n THEN s[i] ELSE Hex - 1]
           b == [k \in 1..4 |-> Pair(d[2 * k - 1], d[2 * k])]
           Step(x, y) == (x * Hex + y) % Word
           Is(f) == f = [k \in 0..n |-> IF k = 0 THEN 0 ELSE Step(f[k - 1], s[k])]
           result == CHOOSE f : Is(f)
<1>1. Hex \in Nat \ {0, 1} /\ Byte = Hex * Hex /\ Byte \in Nat \ {0} /\ Word \in Nat \ {0}
  BY ByteType, ValuesAssumption
<1>2. n \in {6, 8} /\ DOMAIN s = 1..n /\ \A i \in 1..n : s[i] \in Digits
  <2>1. DOMAIN s = 1..n /\ \A i \in 1..n : s[i] \in Nat
    BY LenProperties, ElementOfSeq
  <2>2. Hex \in Int
    BY <1>1
  <2> QED
    BY <2>1, <2>2 DEF Digits
<1>3. d \in [1..8 -> Digits] /\ \A i \in 1..n : d[i] = s[i]
  <2>1. Hex - 1 \in Digits
    BY <1>1 DEF Digits
  <2> HIDE DEF n
  <2>2. \A i \in 1..8 : i <= n => i \in 1..n
    BY <1>2
  <2>3. \A i \in 1..n : i \in 1..8 /\ i <= n
    BY <1>2
  <2> QED
    BY <1>2, <2>1, <2>2, <2>3
<1>4. ASSUME n = 6
      PROVE  Pair(d[7], d[8]) = Byte - 1
  <2>1. d[7] = Hex - 1 /\ d[8] = Hex - 1
    BY <1>4
  <2>2. (Hex - 1) * Hex = Hex * Hex - Hex
    BY <1>1
  <2> QED
    BY <1>1, <2>1, <2>2 DEF Pair
<1> HIDE DEF d
<1>5. /\ Pair(d[1], d[2]) \in Bytes /\ Pair(d[3], d[4]) \in Bytes
      /\ Pair(d[5], d[6]) \in Bytes /\ Pair(d[7], d[8]) \in Bytes
  BY <1>3, DigitsAreBytes
<1>6. PICK w \in [0..8 -> 0..(Word - 1)] :
              /\ w[0] = 0 /\ \A k \in 1..8 : w[k] = Pair(w[k - 1], d[k])
              /\ w[8] = Shift(w[6], Pair(d[7], d[8]))
              /\ ToBytes(w[8]) = <<Pair(d[1], d[2]), Pair(d[3], d[4]),
                                   Pair(d[5], d[6]), Pair(d[7], d[8])>>
  BY <1>3, DigitsAreBytes
<1>7. \A x \in 0..(Word - 1) : x % Word = x
  BY Fits
<1>8. \A k \in 1..n : w[k] = Step(w[k - 1], s[k])
  <2> HIDE DEF n
  <2> TAKE k \in 1..n
  <2>1. k \in 1..8 /\ k \in 0..8
    BY <1>2, Counted
  <2>2. w[k] = Pair(w[k - 1], s[k])
    BY <1>3, <1>6, <2>1
  <2> QED
    BY <1>6, <1>7, <2>1, <2>2 DEF Pair
<1>9. Is([k \in 0..n |-> w[k]])
  <2>1. \A k \in 0..n : k # 0 => k \in 1..n /\ k - 1 \in 0..n
    BY <1>2, Counted
  <2> HIDE DEF n, Step
  <2> QED
    BY <1>6, <1>8, <2>1
<1>10. Is(result)
  <2> HIDE DEF Is
  <2> QED
    BY <1>9
<1>11. ParseColor(s) = Rgba(ToBytes(IF n = 6 THEN (result[n] * Byte + Byte - 1) % Word ELSE result[n]))
  <2>1. ASSUME NEW i \in DOMAIN s, s[i] >= Hex PROVE FALSE
    <3>1. s[i] \in Digits
      BY <1>2
    <3> QED
      BY <2>1, <3>1, DigitsAreLess
  <2> QED
    BY <2>1 DEF ParseColor
<1> HIDE DEF result, n, Step
<1>12. /\ result[0] = 0
       /\ \A k \in 1..n : result[k] = Step(result[k - 1], s[k])
  <2>1. 0 \in 0..n /\ \A k \in 1..n : k \in 0..n /\ k # 0
    BY <1>2, Counted
  <2> QED
    BY <1>10, <2>1
<1>13. result[6] = w[6] /\ (n = 8 => result[8] = w[8])
  <2>1. \A k \in 0..(n - 1) : result[k] = w[k] => result[k + 1] = w[k + 1]
    <3> TAKE k \in 0..(n - 1)
    <3>1. k + 1 \in 1..n /\ k + 1 - 1 = k
      BY <1>2, Counted
    <3> QED
      BY <1>8, <1>12, <3>1
  <2>2. result[0] = w[0]
    BY <1>6, <1>12
  <2> DEFINE Same == {k \in 0..8 : result[k] = w[k]}
  <2>3. 0 \in Same
    BY <2>2
  <2>4. \A k \in 0..(n - 1) : k \in Same => k + 1 \in Same
    <3> TAKE k \in 0..(n - 1)
    <3>1. k + 1 \in 1..n /\ \A j \in 1..n : j \in 0..8
      BY <1>2, Counted
    <3> QED
      BY <2>1, <3>1
  <2>5. \A k \in Same : result[k] = w[k]
    OBVIOUS
  <2> HIDE DEF Same
  <2>6. 6 \in Same /\ (n = 8 => 8 \in Same)
    BY <1>2, <2>3, <2>4, StepByStep
  <2> QED
    BY <2>5, <2>6
<1>14. (IF n = 6 THEN (result[n] * Byte + Byte - 1) % Word ELSE result[n]) = w[8]
  <2>1. CASE n = 6
    <3>1. w[8] = w[6] * Byte + (Byte - 1) /\ w[6] \in 0..(Word - 1) /\ w[8] \in 0..(Word - 1)
      BY <1>4, <1>6, <2>1 DEF Shift
    <3>3. w[6] * Byte + Byte - 1 = w[8]
      BY <3>1, LastByte
    <3> QED
      BY <1>7, <1>13, <2>1, <3>1, <3>3
  <2>2. CASE n = 8
    BY <1>13, <2>2
  <2> QED
    BY <1>2, <2>1, <2>2
<1>15. b \in [1..4 -> Bytes]
  <2>1. \A k \in 1..4 : k \in {1, 2, 3, 4}
    OBVIOUS
  <2> QED
    BY <1>5, <2>1
<1>16. b[1] = Pair(d[1], d[2]) /\ b[2] = Pair(d[3], d[4]) /\ b[3] = Pair(d[5], d[6]) /\ b[4] = Pair(d[7], d[8])
  OBVIOUS
<1>17. \A k \in 1..(n \div 2) : b[k] = Pair(s[2 * k - 1], s[2 * k])
  <2> TAKE k \in 1..(n \div 2)
  <2>1. k \in 1..4 /\ 2 * k - 1 \in 1..n /\ 2 * k \in 1..n
    BY <1>2, Counted
  <2> QED
    BY <1>3, <2>1
<1>18. ParseColor(s) = Rgba(<<b[1], b[2], b[3], b[4]>>)
  BY <1>6, <1>11, <1>14, <1>16
<1>19. n = 6 => b[4] = Byte - 1
  BY <1>4, <1>16
<1> HIDE DEF b
<1> QED
  BY <1>15, <1>17, <1>18, <1>19 DEF n

\* The digits after the hash.
LEMMA TailOf ==
  ASSUME NEW s \in Seq(Nat), Len(s) > 0
  PROVE  LET t == Tail(s) IN t \in Seq(Nat) /\ Len(t) = Len(s) - 1 /\ \A i \in 1..Len(t) : t[i] = s[i + 1]
<1>1. s # <<>>
  <2>1. Len(<<>>) = 0
    OBVIOUS
  <2>2. Len(s) # 0
    OBVIOUS
  <2> QED
    BY <2>1, <2>2, Zenon
<1>2. Tail(s) \in Seq(Nat) /\ Len(Tail(s)) = Len(s) - 1
      /\ \A i \in 1..Len(Tail(s)) : Tail(s)[i] = s[i + 1]
  BY <1>1, HeadTailProperties
<1> QED
  BY <1>2

\* Half the digits are three or four bytes.
LEMMA Halved ==
  ASSUME NEW n \in {6, 8}
  PROVE  n \div 2 \in {3, 4} /\ (n \div 2 = 3 <=> n = 6)
OBVIOUS

\* The two functions agree on what is no integer.
LEMMA BothRead ==
  ASSUME NEW item, item.type # "int"
  PROVE  LET c == ParseColor(Tail(item.v))
             hash == item.type = "str" /\ Len(item.v) \in {7, 9} /\ item.v[1] = Hash
         IN  /\ FromToml(item) = IF hash /\ c # TypeError THEN c ELSE item
             /\ Deserialized(item) = IF hash /\ c # TypeError THEN c ELSE item
<1> DEFINE c == ParseColor(Tail(item.v))
           hash == item.type = "str" /\ Len(item.v) \in {7, 9} /\ item.v[1] = Hash
<1>1. Deserialized(item) = IF hash /\ c # TypeError THEN c ELSE item
  BY DEF Deserialized
<1>2. CASE hash
  <2>1. FromToml(item) = IF c = TypeError THEN item ELSE c
    BY <1>2 DEF FromToml
  <2> HIDE DEF c
  <2> QED
    BY <1>1, <1>2, <2>1 DEF c
<1>3. CASE ~hash
  <2>1. FromToml(item) = item
    BY <1>3 DEF FromToml
  <2> HIDE DEF c, hash
  <2> QED
    BY <1>1, <1>3, <2>1 DEF c, hash
<1> QED
  BY <1>2, <1>3

\* An integer of either width is read the same, or refused by both.
LEMMA IntegerConfigured ==
  ASSUME NEW k
  PROVE  ConfiguredAlike(Integer(k))
<1> DEFINE item == Integer(k)
           read == IF IsI32(k) THEN item ELSE TypeError
<1>1. item.type = "int" /\ item.v[1] = k /\ item.type # "str"
  BY DEF Integer
<1> HIDE DEF item
<1>2. FromToml(item) = read
  <2>1. FromToml(item) = IF IsI32(item.v[1]) THEN item ELSE TypeError
    BY <1>1 DEF FromToml
  <2> QED
    BY <1>1, <2>1
<1>3. Deserialized(item) = read
  BY <1>1 DEF Deserialized
<1>4. read.type # "rgba"
  BY <1>1 DEF TypeError
<1> HIDE DEF read
<1> QED
  BY <1>2, <1>3, <1>4 DEF ConfiguredAlike, item

\* What has another type stays what it is.
LEMMA OthersConfigured ==
  ASSUME NEW item, item.type \notin {"int", "str", "rgba"}
  PROVE  ConfiguredAlike(item)
<1>1. FromToml(item) = item /\ Deserialized(item) = item
  BY BothRead
<1> QED
  BY <1>1 DEF ConfiguredAlike

\* A string is read the same, also where it looks like a color.
LEMMA TextConfigured ==
  ASSUME NEW s \in Seq(Nat)
  PROVE  ConfiguredAlike(Text(s))
<1> DEFINE item == Text(s)
           t == Tail(s)
           c == ParseColor(t)
           hash == Len(s) \in {7, 9} /\ s[1] = Hash
           read == IF hash /\ c # TypeError THEN c ELSE item
           bytes == [k \in 1..((Len(s) - 1) \div 2) |-> s[2 * k] * Hex + s[2 * k + 1]]
<1>1. item.type = "str" /\ item.v = s
  BY DEF Text
<1>2. FromToml(item) = read /\ Deserialized(item) = read
  <2> HIDE DEF item
  <2> QED
    BY <1>1, BothRead
<1>3. ASSUME hash, c # TypeError
      PROVE  c = ValueOf(One("color", bytes))
  <2>1. t \in Seq(Nat) /\ Len(t) = Len(s) - 1 /\ \A i \in 1..Len(t) : t[i] = s[i + 1]
    <3>1. Len(s) > 0
      BY <1>3
    <3> HIDE DEF t
    <3> QED
      BY <3>1, TailOf DEF t
  <2>2. Len(t) \in {6, 8} /\ DOMAIN t = 1..Len(t)
    BY <1>3, <2>1, LenProperties
  <2>3. \A i \in 1..Len(t) : t[i] < Hex
    <3>1. ~ \E i \in DOMAIN t : t[i] >= Hex
      BY <1>3 DEF ParseColor
    <3> HIDE DEF t
    <3> TAKE i \in 1..Len(t)
    <3>2. t[i] \in Nat /\ Hex \in Nat
      BY <2>1, ElementOfSeq, ByteType
    <3> QED
      BY <2>2, <3>1, <3>2
  <2> HIDE DEF t
  <2>4. PICK b \in [1..4 -> Bytes] :
          /\ \A k \in 1..(Len(t) \div 2) : b[k] = Pair(t[2 * k - 1], t[2 * k])
          /\ Len(t) = 6 => b[4] = Byte - 1
          /\ ParseColor(t) = Rgba(<<b[1], b[2], b[3], b[4]>>)
    BY <2>1, <2>2, <2>3, ColorParsed
  <2> DEFINE m == Len(t) \div 2
  <2>5. m \in {3, 4} /\ (m = 3 <=> Len(t) = 6) /\ m = (Len(s) - 1) \div 2
    <3>2. Len(s) - 1 = Len(t)
      BY <1>3, <2>1
    <3>3. m = (Len(s) - 1) \div 2
      BY <3>2
    <3>4. m \in {3, 4} /\ (m = 3 <=> Len(t) = 6)
      BY <2>2, Halved
    <3> QED
      BY <3>3, <3>4
  <2>6. \A k \in 1..m : s[2 * k] * Hex + s[2 * k + 1] = b[k]
    <3> TAKE k \in 1..m
    <3>1. 2 * k - 1 \in 1..Len(t) /\ 2 * k \in 1..Len(t) /\ 2 * k - 1 + 1 = 2 * k
      <4>1. Len(t) = 6 \/ Len(t) = 8
        BY <2>2
      <4> QED
        BY <4>1
    <3>2. t[2 * k - 1] = s[2 * k] /\ t[2 * k] = s[2 * k + 1]
      BY <2>1, <3>1
    <3> QED
      BY <2>4, <3>2 DEF Pair
  <2> HIDE DEF m
  <2> DEFINE e == [k \in 1..m |-> b[k]]
  <2>7. bytes = e
    BY <2>5, <2>6
  <2>8. /\ e \in Seq(Bytes) /\ Len(e) = m /\ DOMAIN e = 1..m
        /\ \A k \in 1..m : e[k] = b[k] /\ e[k] \in Bytes
    <3>1. \A k \in 1..m : k \in 1..4
      BY <2>5
    <3>2. e \in [1..m -> Bytes] /\ m \in Nat /\ \A k \in 1..m : e[k] = b[k]
      BY <2>4, <2>5, <3>1
    <3> HIDE DEF e
    <3>3. Seq(Bytes) = UNION {[1..n -> Bytes] : n \in Nat}
      BY SeqDef
    <3>4. e \in Seq(Bytes)
      BY <3>2, <3>3
    <3>5. Len(e) = m
      <4>1. DOMAIN e = 1..Len(e) /\ Len(e) \in Nat
        BY <3>4, LenProperties
      <4> QED
        BY <3>2, <4>1
    <3> QED
      BY <3>2, <3>4, <3>5
  <2> HIDE DEF e
  <2> DEFINE x == <<Byte - 1>>
             d == <<b[1], b[2], b[3], b[4]>>
             all == IF Len(e) = 3 THEN e \o x ELSE e
  <2>9. d \in Seq(Bytes) /\ Len(d) = 4 /\ \A k \in 1..4 : d[k] = b[k]
    <3>1. \A k \in 1..4 : k \in {1, 2, 3, 4}
      OBVIOUS
    <3> QED
      BY <3>1
  <2>10. all = d
    <3>1. CASE m = 3
      <4>1. b[4] = Byte - 1 /\ Byte - 1 \in Bytes
        BY <2>4, <2>5, <3>1
      <4>2. x \in Seq(Bytes) /\ Len(x) = 1 /\ x[1] = b[4]
        BY <4>1
      <4> HIDE DEF x, d
      <4> DEFINE y == e \o x
      <4>3. /\ y \in Seq(Bytes) /\ Len(y) = Len(e) + Len(x)
            /\ \A i \in 1..(Len(e) + Len(x)) : y[i] = IF i <= Len(e) THEN e[i] ELSE x[i - Len(e)]
        BY <2>8, <4>2, ConcatProperties
      <4> HIDE DEF y
      <4>4. Len(y) = 4 /\ \A i \in 1..4 : y[i] = b[i]
        BY <2>8, <3>1, <4>2, <4>3
      <4>5. \A i \in 1..4 : y[i] = d[i]
        BY <2>9, <4>4
      <4>6. y = d
        <5>1. y \in Seq(Bytes) /\ d \in Seq(Bytes) /\ Len(y) = Len(d)
          BY <2>9, <4>3, <4>4
        <5>2. \A i \in 1..Len(y) : y[i] = d[i]
          BY <4>4, <4>5
        <5> QED
          BY <5>1, <5>2, SeqEqual
      <4> QED
        BY <2>8, <3>1, <4>6 DEF y
    <3>2. CASE m = 4
      <4> HIDE DEF x, d
      <4>1. Len(e) = 4 /\ \A i \in 1..4 : e[i] = d[i]
        BY <2>8, <2>9, <3>2
      <4>2. e = d
        <5>1. Len(e) = Len(d) /\ \A i \in 1..Len(e) : e[i] = d[i]
          BY <2>9, <4>1
        <5> QED
          BY <2>8, <2>9, <5>1, SeqEqual
      <4> QED
        BY <4>1, <4>2
    <3> QED
      BY <2>5, <3>1, <3>2
  <2>11. ColorOf(e) = Rgba(all)
    <3>1. Len(e) \in {3, 4} /\ \A i \in DOMAIN e : e[i] \in 0..(Byte - 1)
      BY <2>5, <2>8 DEF Bytes
    <3> HIDE DEF d
    <3> QED
      BY <3>1 DEF ColorOf
  <2>12. ValueOf(One("color", e)) = ColorOf(e)
    BY OneField, Said
  <2> HIDE DEF all, bytes
  <2> QED
    BY <2>4, <2>7, <2>10, <2>11, <2>12
<1>4. read.type = "rgba" => hash /\ c # TypeError
  BY <1>1
<1> HIDE DEF hash, c, item
<1>5. read.type = "rgba" => read = ValueOf(One("color", bytes))
  BY <1>3, <1>4
<1> HIDE DEF read
<1>6. ConfiguredAlike(item)
  BY <1>1, <1>2, <1>5 DEF ConfiguredAlike
<1> QED
  BY <1>6 DEF item

\* Whichever way the configuration is read, it says the same.
LEMMA ItemsConfigured ==
  ASSUME NEW item \in Items
  PROVE  ConfiguredAlike(item)
<1>1. CASE item \in {Bool(b) : b \in BOOLEAN}
  <2>1. item.type = "bool"
    BY <1>1 DEF Bool
  <2> QED
    BY <2>1, OthersConfigured
<1>2. CASE item \in {Integer(k) : k \in Numbers}
  BY <1>2, IntegerConfigured
<1>3. CASE item \in {Float(x) : x \in Floats}
  <2>1. item.type = "flt"
    BY <1>3 DEF Float
  <2> QED
    BY <2>1, OthersConfigured
<1>4. CASE item \in {Text(s) : s \in Strings}
  BY <1>4, ValuesAssumption, TextConfigured
<1> QED
  BY <1>1, <1>2, <1>3, <1>4 DEF Items

-----------------------------------------------------------------------------
(* Every call. *)

Called ==
  \/ call = <<>>
  \/ \E v \in Stored : call = <<"store", v>>
  \/ \E data \in Settings, T \in DOMAIN TypeOf : call = <<"set", data, T>>
  \/ \E item \in Items : call = <<"configure", item>>

\* Every call keeps its value.
LEMMA CallsSurvive == Called => ValuesSurvive
<1> SUFFICES ASSUME Called PROVE ValuesSurvive
  OBVIOUS
<1>1. CASE call = <<>>
  BY <1>1 DEF ValuesSurvive, IsCall
<1>2. ASSUME NEW v \in Stored, call = <<"store", v>> PROVE ValuesSurvive
  <2>1. StoredIsReadBack(v)
    BY StoredReadBack
  <2>2. call[1] = "store" /\ call[2] = v
    BY <1>2
  <2> QED
    BY <2>1, <2>2 DEF ValuesSurvive, IsCall
<1>3. ASSUME NEW data \in Settings, NEW T, call = <<"set", data, T>> PROVE ValuesSurvive
  <2>1. ShownAsSet(data, T)
    BY SettingsShown
  <2>2. call[1] = "set" /\ call[2] = data /\ call[3] = T
    BY <1>3
  <2> QED
    BY <2>1, <2>2 DEF ValuesSurvive, IsCall
<1>4. ASSUME NEW item \in Items, call = <<"configure", item>> PROVE ValuesSurvive
  <2>1. ConfiguredAlike(item)
    BY ItemsConfigured
  <2>2. call[1] = "configure" /\ call[2] = item
    BY <1>4
  <2> QED
    BY <2>1, <2>2 DEF ValuesSurvive, IsCall
<1> QED
  BY <1>1, <1>2, <1>3, <1>4 DEF Called

\* Every value of any size that is stored, set or configured stays what it is on
\* its way (Builder::to_redis, from_value, set_device, TryFrom<&toml::Value>).
THEOREM ValuesKept == ValueSpec => []ValuesSurvive
<1>1. call = <<>> => Called
  BY DEF Called
<1>2. Called /\ [CallValue]_call => Called'
  BY DEF Called, CallValue
<1> QED
  BY <1>1, <1>2, CallsSurvive, PTL DEF ValueSpec
=============================================================================
