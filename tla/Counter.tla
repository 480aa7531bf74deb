------------------------------ MODULE Counter ------------------------------
(***************************************************************************)
(* The counter driver (drmemd/driver/counter): counts the false to true    *)
(* transitions of its increment input, until it is reset.                  *)
(***************************************************************************)
EXTENDS DriverParameters

VARIABLES
  tripped,     \* Instance is Tripped, not Waiting
  count,       \* its count
  increment,   \* the last setting of the increment device
  shown,       \* the value reported for the count device
  edges,       \* transitions of increment to true since the last reset
  extra,       \* what the last reset found increment to be and what became of
               \* it: "none", "armed" (it was true) or "counted"
  hidden       \* reset was set to false since the last count or reset

vars == <<tripped, count, increment, shown, edges, extra, hidden>>

Init ==
  /\ tripped = FALSE
  /\ count = 0
  /\ increment = FALSE
  /\ shown = 0
  /\ edges = 0
  /\ extra = "none"
  /\ hidden = FALSE

\* i32 addition of one, which wraps in a release build.
Succ(n) == IF n = Limit THEN -Limit - 1 ELSE n + 1

\* Defect: every setting of true is counted.
IncrementAlways(b) ==
  IF b
  THEN tripped' = TRUE /\ count' = Succ(count) /\ shown' = Succ(count)
  ELSE tripped' = FALSE /\ UNCHANGED <<count, shown>>

\* increment(b), and the report of a new count.
Increment(b) ==
  IF b /\ ~tripped
  THEN tripped' = TRUE /\ count' = Succ(count) /\ shown' = Succ(count)
  ELSE tripped' = (tripped /\ b) /\ UNCHANGED <<count, shown>>

SetIncrement(b) ==
  /\ Increment(b)
  /\ increment' = b
  /\ edges' = IF b /\ ~increment THEN Succ(edges) ELSE edges
  /\ extra' = IF extra = "armed" THEN IF b THEN "counted" ELSE "none" ELSE extra
  /\ hidden' = (hidden /\ ~(b /\ (~increment \/ extra = "armed")))

\* reset(b) only resets when b is true; the report of 0 is sent in any case.
SetReset(b) ==
  /\ IF b
     THEN /\ tripped' = FALSE /\ count' = 0
          /\ edges' = 0 /\ extra' = (IF increment THEN "armed" ELSE "none")
     ELSE UNCHANGED <<tripped, count, edges, extra>>
  /\ shown' = 0
  /\ hidden' = ~b
  /\ UNCHANGED increment

Next == \E b \in BOOLEAN : SetIncrement(b) \/ SetReset(b)

Spec == Init /\ [][Next]_vars

-----------------------------------------------------------------------------
(* Properties. *)

\* The count is that of the transitions since the last reset, and one more if
\* the reset found the input true and it was set to true again before it was
\* set to false.  It is shown unless reset was set to false since it last
\* changed: then 0 is shown, although the count is kept.  (drv_counter.md has
\* "the current count" shown, and a count for each transition only.)
CountsEdges ==
  /\ count = IF extra = "counted" THEN Succ(edges) ELSE edges
  /\ shown = IF hidden THEN 0 ELSE count
  /\ tripped => increment
=============================================================================
