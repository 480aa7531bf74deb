------------------------------ MODULE RangeMap ------------------------------
(***************************************************************************)
(* The map driver (drmemd/driver/map): its output is the value of the      *)
(* range that has the index.  A value is the position of its range in the  *)
(* configuration, and Default is none of them.                             *)
(***************************************************************************)
EXTENDS DriverParameters

Default == 0

VARIABLES
  entries,   \* `values` of the configuration
  index,     \* the device, or Absent
  output     \* the device

vars == <<entries, index, output>>

-----------------------------------------------------------------------------
(* config.rs. *)

Entry == [start : Indices, end : Indices \cup {Absent}]
Configs == UNION {[1..n -> Entry] : n \in 0..Ranges}

\* The sort of parse, which is stable.
Precedes(cfg, i, j) == cfg[i].start < cfg[j].start \/ (cfg[i].start = cfg[j].start /\ i < j)

\* The positions of the ranges by their starts.
SortedPositions(cfg) ==
  CHOOSE s \in [DOMAIN cfg -> DOMAIN cfg] :
    \A a, b \in DOMAIN cfg : a < b => Precedes(cfg, s[a], s[b])

EndOf(e) == IF e.end = Absent THEN e.start ELSE e.end

\* Defect: two ranges may share a bound.
ParsesTouching(cfg) ==
  LET s == SortedPositions(cfg) IN
  \A k \in 1..(Len(s) - 1) : EndOf(cfg[s[k]]) <= cfg[s[k + 1]].start

\* parse: a range must end before the next one starts.
Parses(cfg) ==
  LET s == SortedPositions(cfg) IN
  \A k \in 1..(Len(s) - 1) : EndOf(cfg[s[k]]) < cfg[s[k + 1]].start

-----------------------------------------------------------------------------
(* driver.rs. *)

\* Its lower and its upper bound: to_entry.
Lower(e) == IF EndOf(e) < e.start THEN EndOf(e) ELSE e.start
Upper(e) == IF EndOf(e) < e.start THEN e.start ELSE EndOf(e)

\* A call of the binary search of map_to, between two places of the sorted
\* positions s, with the calls it makes itself.
SearchStep(search, s, idx, between) ==
  LET lo == between[1]
      hi == between[2]
      mid == (lo + hi) \div 2
      e == entries[s[mid]]
  IN CASE lo > hi -> Default
       [] lo <= hi /\ idx < Lower(e) -> search[<<lo, mid - 1>>]
       [] lo <= hi /\ idx > Upper(e) -> search[<<mid + 1, hi>>]
       [] OTHER -> s[mid]

Search(s, idx) ==
  LET search[between \in (1..(Len(s) + 1)) \X (0..Len(s))] ==
        SearchStep(search, s, idx, between)
  IN search

MapTo(idx) == LET s == SortedPositions(entries) IN Search(s, idx)[<<1, Len(s)>>]

\* With no initial index the output is the default.
Init ==
  /\ entries \in Configs /\ Parses(entries)
  /\ index \in Indices \cup {Absent}
  /\ output = IF index = Absent THEN Default ELSE MapTo(index)

\* A setting of the index device.
SetIndex(i) ==
  /\ index' = i /\ output' = MapTo(i)
  /\ UNCHANGED entries

Next == \E i \in Indices : SetIndex(i)

Spec == Init /\ [][Next]_vars

-----------------------------------------------------------------------------
(* Properties. *)

Has(i, idx) == Lower(entries[i]) <= idx /\ idx <= Upper(entries[i])

\* Of an accepted configuration whose ranges are written from low to high, no
\* index is in two ranges, and the output is the value of the one that has it.
MapsToRange ==
  (\A i \in DOMAIN entries : Lower(entries[i]) = entries[i].start) =>
    LET at == {i \in DOMAIN entries : index # Absent /\ Has(i, index)}
    IN at = (IF output = Default THEN {} ELSE {output})
=============================================================================
