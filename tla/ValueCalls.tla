----------------------------- MODULE ValueCalls -----------------------------
(***************************************************************************)
(* Calls of the functions that a value goes through on its way from the    *)
(* configuration or a client to a device, the backend and its readers: it  *)
(* is stored and read back, set and shown, configured.                     *)
(***************************************************************************)
EXTENDS GraphQL, Calls

CONSTANTS
  Numbers,    \* integers of the configuration; devices have those of 32 bits
  Floats,
  Texts,      \* what devices have and are set to
  Shades,     \* the red, green, blue and alpha of their colors
  Kelvins,    \* and the temperatures
  Lists,      \* what a client gives as the components of a color
  Strings     \* of the configuration

ASSUME ValuesAssumption ==
  /\ Hex \in Nat \ {0, 1} /\ Byte = Hex * Hex
  /\ Numbers \subseteq Int /\ Kelvins \subseteq Nat
  /\ Shades \subseteq [1..4 -> 0..(Byte - 1)]
  /\ \A s \in Texts : s \in Seq(Nat) /\ Len(s) < Word
  /\ \A c \in Lists : c \in Seq(Int)
  /\ \A s \in Strings : s \in Seq(Nat)

Integers32 == {k \in Numbers : IsI32(k)}

Stored ==
  {Bool(b) : b \in BOOLEAN} \union {Integer(k) : k \in Integers32} \union {Float(x) : x \in Floats}
  \union {Text(s) : s \in Texts} \union {Rgba(c) : c \in Shades}
  \union {Ccta(k, a) : k \in Kelvins, a \in 0..(Byte - 1)}

Fields == {"bool", "int", "flt", "str", "color"}

\* A setting has one field, no field or several.
Vague == UNION {[given -> {<<0>>}] : given \in {F \in SUBSET Fields : \A f \in Fields : F # {f}}}
Settings ==
  {One("bool", <<b>>) : b \in {0, 1}} \union {One("int", <<k>>) : k \in Integers32}
  \union {One("flt", <<x>>) : x \in Floats} \union {One("str", s) : s \in Texts}
  \union {One("color", c) : c \in Lists} \union Vague

Items ==
  {Bool(b) : b \in BOOLEAN} \union {Integer(k) : k \in Numbers} \union {Float(x) : x \in Floats}
  \union {Text(s) : s \in Strings}

CallValue ==
  \/ call = <<>> /\ call' \in {<<"store", v>> : v \in Stored}
  \/ call = <<>> /\ call' \in {<<"set", data, T>> : data \in Settings, T \in DOMAIN TypeOf}
  \/ call = <<>> /\ call' \in {<<"configure", item>> : item \in Items}

ValueSpec == call = <<>> /\ [][CallValue]_call

-----------------------------------------------------------------------------
(* Properties. *)

\* A value stays what it is on its way from the configuration or a client to the
\* device, the backend and its readers.
ValuesSurvive ==
  /\ IsCall("store") => StoredIsReadBack(call[2])
  /\ IsCall("set") => ShownAsSet(call[2], call[3])
  /\ IsCall("configure") => ConfiguredAlike(call[2])
=============================================================================
