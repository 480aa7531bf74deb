------------------------------- MODULE GraphQL -------------------------------
(***************************************************************************)
(* How a value gets from a GraphQL mutation or the configuration to a      *)
(* device, and how a device's value is shown to GraphQL's clients          *)
(* (graphql.rs, value.rs).  A setting and a reading have fields, of which  *)
(* one is given; a field's value is a sequence of numbers.                 *)
(***************************************************************************)
EXTENDS RedisValue

CONSTANT Hex   \* the values of a hexadecimal digit; Byte is its square

\* What a driver's device is typed as (T in ReadWriteDevice<T>), and the type
\* of the values it converts to and from.
TypeOf == [bool |-> "bool", i32 |-> "int", i16 |-> "int", u16 |-> "int",
           f64 |-> "flt", String |-> "str", LinSrgba |-> "rgba"]

Half == Byte * Byte

\* T::try_from(value), for the range of the short integers.
Converts(T, v) ==
  /\ v.type = TypeOf[T]
  /\ T = "i16" => v.v[1] \in (-(Half \div 2))..(Half \div 2 - 1)
  /\ T = "u16" => v.v[1] \in 0..(Half - 1)

-----------------------------------------------------------------------------
(* Mutations. *)

Refused == <<>>

Given(data) == DOMAIN data
One(field, val) == [f \in {field} |-> val]

\* A color has three or four components, each a byte.
ColorOf(c) ==
  IF Len(c) \notin {3, 4} \/ \E i \in DOMAIN c : c[i] \notin 0..(Byte - 1) THEN TypeError
  ELSE Rgba(IF Len(c) = 3 THEN c \o <<Byte - 1>> ELSE c)

ValueOf(data) ==
  CASE Given(data) = {"int"} -> Integer(data.int[1])
    [] Given(data) = {"flt"} -> Float(data.flt[1])
    [] Given(data) = {"bool"} -> Bool(data.bool[1] = 1)
    [] Given(data) = {"str"} -> Text(data.str)
    [] Given(data) = {"color"} -> ColorOf(data.color)
    [] OTHER -> TypeError

\* Defect: the reply never shows the alpha.
ShownInReplyOpaque(v) ==
  IF v.type = "rgba" THEN One("color", SubSeq(v.v, 1, 3)) ELSE One(v.type, v.v)

\* int_to_reading ... color_to_reading.
ShownInReply(v) ==
  IF v.type = "rgba" THEN One("color", IF v.v[4] = Byte - 1 THEN SubSeq(v.v, 1, 3) ELSE v.v)
                     ELSE One(v.type, v.v)

\* set_device of a device whose driver answers with the value it is given.
SetDevice(data, T) ==
  LET v == ValueOf(data)
  IN  IF v # TypeError /\ Converts(T, v) THEN ShownInReply(v) ELSE Refused

-----------------------------------------------------------------------------
(* Queries and subscriptions. *)

\* From<&device::Reading>, for the points of a device's history.
ShownInInfo(v) ==
  IF v.type \notin {"rgba", "ccta"} THEN One(v.type, v.v)
  ELSE IF v.type = "rgba" /\ v.v[4] = Byte - 1 THEN One("color", <<v.v[1], v.v[2], v.v[3]>>)
  ELSE One("color", v.v)

\* xlat, for the readings of a subscription.
ShownToMonitor(v) ==
  IF v.type \notin {"rgba", "ccta"} THEN One(v.type, v.v)
  ELSE One("color", IF v.type = "ccta" \/ v.v[4] < Byte - 1 THEN v.v ELSE SubSeq(v.v, 1, 3))

-----------------------------------------------------------------------------
(* The configuration.  An item is a TOML value: an integer has 64 bits, and *)
(* a string is its bytes, of which those below Hex are the digits.         *)

Hash == Hex

IsI32(k) == k \in (-(Word \div 2))..(Word \div 2 - 1)

\* parse_color of six or eight digits: a 32-bit number, and its four bytes.
ParseColor(s) ==
  LET result[k \in 0..Len(s)] == IF k = 0 THEN 0 ELSE (result[k - 1] * Hex + s[k]) % Word
      number == result[Len(s)]
      all == IF Len(s) = 6 THEN (number * Byte + Byte - 1) % Word ELSE number
  IN  IF \E i \in DOMAIN s : s[i] >= Hex THEN TypeError ELSE Rgba(ToBytes(all))

\* TryFrom<&toml::value::Value>
FromToml(item) ==
  CASE item.type = "int" -> IF IsI32(item.v[1]) THEN item ELSE TypeError
    [] item.type = "str" /\ Len(item.v) \in {7, 9} /\ item.v[1] = Hash ->
         LET c == ParseColor(Tail(item.v)) IN IF c = TypeError THEN item ELSE c
    [] OTHER -> item

\* Deserialize: the visitor's functions.
Deserialized(item) ==
  LET color == ParseColor(Tail(item.v))
      colored == item.type = "str" /\ Len(item.v) \in {7, 9} /\ item.v[1] = Hash /\ color # TypeError
  IN  IF colored THEN color
      ELSE IF item.type = "int" /\ ~IsI32(item.v[1]) THEN TypeError ELSE item

-----------------------------------------------------------------------------
(* Properties of every call. *)

\* A mutation is refused if it does not say one thing, or says what the device
\* cannot hold.  What it is answered with is what was set, except for the alpha
\* of an opaque color; it is also what redis' clients and subscribers are shown
\* of the value when the backend has stored it and read it back; and setting
\* the device to what is shown sets it to the same value.
ShownAsSet(data, T) ==
  LET v == ValueOf(data)
      reply == SetDevice(data, T)
      readBack == FromValue(ToRedis(v))
  IN  IF v = TypeError \/ ~Converts(T, v) THEN reply = Refused
      ELSE /\ Given(data) = Given(reply)
           /\ reply = data \/ reply = One("color", <<v.v[1], v.v[2], v.v[3]>>)
           /\ ShownToMonitor(readBack) = reply /\ ShownInInfo(readBack) = reply
           /\ ValueOf(reply) = v /\ SetDevice(reply, T) = reply

\* The two ways to read a configuration agree, and a color in it is the one
\* that a mutation with its bytes sets.
ConfiguredAlike(item) ==
  /\ FromToml(item) = Deserialized(item)
  /\ LET bytes == [k \in 1..((Len(item.v) - 1) \div 2) |-> item.v[2 * k] * Hex + item.v[2 * k + 1]]
     IN  FromToml(item).type = "rgba" => FromToml(item) = ValueOf(One("color", bytes))
=============================================================================
