----------------------------- MODULE NameCalls -----------------------------
(***************************************************************************)
(* Calls of the functions for names: a pattern is matched with a name, a   *)
(* client asks for devices, a driver registers its own.                    *)
(***************************************************************************)
EXTENDS Names, Calls

CONSTANTS
  Chars,      \* all characters
  Patterns,   \* that are matched
  Labels,     \* with these
  Queries,    \* of clients
  Devices,    \* whether each device there is, by its name, is settable
  Paths,      \* prefixes of drivers, and groups of their devices
  Bases       \* names of devices in their groups

ASSUME NamesAssumption ==
  /\ Alphanumeric \union {"-", ":", "*", "?"} \subseteq Chars
  /\ Alphanumeric \intersect {"-", ":", "*", "?"} = {}
  /\ Bad \notin Seq(Seq(Chars)) /\ Bad \notin [path : Seq(Seq(Chars)), base : Seq(Chars)]
  /\ \A s \in Patterns \union Labels \union Queries \union DOMAIN Devices \union Paths \union Bases :
       s \in Seq(Chars)
  /\ \A s \in DOMAIN Devices : WellFormed(s) /\ Devices[s] \in BOOLEAN
  /\ \A s \in Paths : CreatePath(s) # Bad

Members == [group : {<<>>} \union Paths, base : Bases]

CallName ==
  \/ call = <<>> /\ call' \in {<<"match", p, s>> : p \in Patterns, s \in Labels}
  \/ call = <<>> /\ call' \in {<<"query", q>> : q \in Queries}
  \/ call = <<>> /\ call' \in {<<"register", p>> : p \in Paths}

NameSpec == call = <<>> /\ [][CallName]_call

-----------------------------------------------------------------------------
(* Properties. *)

\* Patterns match names, and names and patterns select devices.
NamesAreFound ==
  /\ IsCall("match") => FindsMatches(call[2], call[3])
  /\ IsCall("query") => SelectsDevices(call[2], Devices)
  /\ IsCall("register") => NamesAreDistinct(CreatePath(call[2]), Members)
=============================================================================
