----------------------------- MODULE RedisValue -----------------------------
(***************************************************************************)
(* How the redis backend stores a device's value (redis/cmd.rs) and reads  *)
(* it back (redis.rs): a tag and bytes.  A byte has Byte values (256), an  *)
(* integer and a length four bytes; a float's eight bytes are one item,    *)
(* and a string is its bytes.                                              *)
(***************************************************************************)
EXTENDS Integers, Sequences

CONSTANT Byte

Word == Byte * Byte * Byte * Byte

\* to_be_bytes and from_be_bytes of i32
ToBytes(k) ==
  LET u == k % Word
  IN  <<u \div (Byte * Byte * Byte), (u \div (Byte * Byte)) % Byte, (u \div Byte) % Byte, u % Byte>>
Unsigned(b) == ((b[1] * Byte + b[2]) * Byte + b[3]) * Byte + b[4]
FromBytes(b) == IF Unsigned(b) >= Word \div 2 THEN Unsigned(b) - Word ELSE Unsigned(b)

Bool(b) == [type |-> "bool", v |-> <<IF b THEN 1 ELSE 0>>]
Integer(k) == [type |-> "int", v |-> <<k>>]
Float(x) == [type |-> "flt", v |-> <<x>>]
Text(s) == [type |-> "str", v |-> s]
Rgba(c) == [type |-> "rgba", v |-> c]
Ccta(k, a) == [type |-> "ccta", v |-> <<k, a>>]
TypeError == [type |-> "error", v |-> <<>>]

\* Builder::to_redis.  A temperature is kept in hundreds, in one byte.
ToRedis(val) ==
  CASE val.type = "bool" -> <<"B", IF val.v[1] = 1 THEN "T" ELSE "F">>
    [] val.type = "int" -> <<"I">> \o ToBytes(val.v[1])
    [] val.type = "flt" -> <<"D", val.v[1]>>
    [] val.type = "str" -> <<"S">> \o ToBytes(Len(val.v)) \o val.v
    [] val.type = "rgba" -> <<"C">> \o val.v
    [] val.type = "ccta" -> <<"C", (val.v[1] \div 100) % Byte, val.v[2]>>

DecodeString(b) ==
  IF Len(b) >= 4 /\ Len(b) >= 4 + Unsigned(b)
  THEN Text(SubSeq(b, 5, 4 + Unsigned(b))) ELSE TypeError

\* Two bytes are a temperature, three a color that is opaque, four any color.
DecodeColor(b) ==
  CASE Len(b) = 2 -> Ccta(b[1] * 100, b[2])
    [] Len(b) = 3 -> Rgba(b \o <<Byte - 1>>)
    [] Len(b) = 4 -> Rgba(b)
    [] OTHER -> TypeError

\* from_value
FromValue(buf) ==
  IF buf = <<>> THEN TypeError
  ELSE LET b == Tail(buf) IN
    CASE buf[1] = "B" /\ b # <<>> /\ b[1] \in {"F", "T"} -> Bool(b[1] = "T")
      [] buf[1] = "I" /\ Len(b) >= 4 -> Integer(FromBytes(b))
      [] buf[1] = "D" /\ b # <<>> -> Float(b[1])
      [] buf[1] = "S" -> DecodeString(b)
      [] buf[1] = "C" -> DecodeColor(b)
      [] OTHER -> TypeError

-----------------------------------------------------------------------------
(* Properties of every call. *)

\* A value that is stored is read back as it was, except that a temperature is
\* rounded down to hundreds, of which there must not be more than a byte holds.
StoredIsReadBack(val) ==
  LET hundreds == val.v[1] \div 100
  IN  IF val.type = "ccta" THEN hundreds < Byte => FromValue(ToRedis(val)) = Ccta(100 * hundreds, val.v[2])
                           ELSE FromValue(ToRedis(val)) = val
=============================================================================
