----------------------------- MODULE MCStorage -----------------------------
(***************************************************************************)
(* The two backends for TLC.  Each behaviour is one of one of them, chosen *)
(* at the start (drmemd is built with one backend), or a call of a         *)
(* function of theirs or of what lies between them and a client: matching  *)
(* names, storing and setting values, reading them from the configuration. *)
(***************************************************************************)
EXTENDS Backends, ValueCalls, NameCalls

CONSTANT MaxLen   \* of a pattern and of a name

\* Without a range, from a time on, up to a time, and both times in either order.
MCRequests ==
  {[start |-> 0, end |-> 0], [start |-> 5, end |-> 0], [start |-> 0, end |-> 7],
   [start |-> 8, end |-> 5]}

\* The backend that drmemd was built with.
VARIABLE backend

simpleVars == vars
storageVars == <<backend, simpleVars, redisVars, call>>

StringsUpTo(n, chars) == UNION {[1..k -> chars] : k \in 0..n}
StringsOf(chars) == StringsUpTo(MaxLen, chars)

MCAlphanumeric == {"a", "b"}
MCChars == MCAlphanumeric \union {"-", ":", "*", "?"}
MCPatterns == StringsOf({"a", "b", "*", "?"})
MCLabels == StringsOf({"a", "b"})

\* Some are names, and some have wildcards or colons and dashes in wrong places.
MCQueries ==
  StringsOf({"a", "-", ":", "*", "?"}) \union {q \o <<":", "a">> : q \in [1..3 -> {"a", "-", ":"}]}
MCDevices == [s \in {t \in StringsOf({"a", "b", "-", ":"}) : WellFormed(t)} |-> s[1] = "a"]

MCBases == StringsUpTo(MaxLen - 1, {"a", "-", ":"})
MCPaths == {s \in StringsOf({"a", "-", ":"}) : CreatePath(s) # Bad}

\* Those of 32 bits, and one that is too small and one that is too large.
MCNumbers == {-Word, Word} \union (-(Word \div 2))..(Word \div 2 - 1)
MCTexts == UNION {[1..k -> {0, 1}] : k \in 0..3}
MCShades == {<<r, 1, 2, a>> : r, a \in 0..(Byte - 1)}
MCLists == UNION {[1..k -> {-1, 0, Byte - 1, Byte}] : k \in 2..4}

\* Strings of all kinds of characters, and those that look like colors.
MCStrings ==
  UNION {[1..k -> 0..Hex] : k \in 0..5}
  \union {<<h>> \o s : h \in {0, Hash},
                       s \in [1..6 -> {0, 1, Hex + 1}] \union [1..7 -> {1}] \union [1..8 -> {0, 1}]}

StorageInit ==
  /\ backend \in {"simple", "redis", "calls"}
  /\ call = <<>>
  /\ Init /\ R!Init
  /\ backend # "redis" => keys = "none"

SimpleDoes(A) == backend = "simple" /\ A /\ UNCHANGED <<backend, redisVars, call>>
RedisDoes(A) == backend = "redis" /\ A /\ UNCHANGED <<backend, simpleVars, call>>

Call ==
  /\ backend = "calls"
  /\ CallValue \/ CallName
  /\ UNCHANGED <<backend, simpleVars, redisVars>>

StorageNext == SimpleDoes(Next) \/ RedisDoes(R!Next) \/ Call

StorageSpec ==
  /\ StorageInit
  /\ [][StorageNext]_storageVars
  /\ backend = "simple" => \A m \in Monitors : WF_simpleVars(Poll(m))
=============================================================================
