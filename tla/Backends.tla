------------------------------ MODULE Backends ------------------------------
(***************************************************************************)
(* The history of a device in each of the two backends: the simple one is  *)
(* ReadingStream, whose names this module has, and the redis one is        *)
(* RedisStore, under R.  drmemd is built with one of them.                 *)
(***************************************************************************)
EXTENDS ReadingStream

CONSTANTS
  Drivers,      \* driver instances configured with the device
  Requests,     \* the [start, end] ranges that clients ask redis for
  None,         \* no driver, no position
  MaxHistory,   \* max_history of the device
  Span,         \* microseconds of a millisecond (1000)
  MaxMs         \* bound on redis' clock, in milliseconds

ASSUME RequestsAssumption == \A r \in Requests : r.start \in Nat /\ r.end \in Nat
ASSUME NoneAssumption == None \notin [ms : Int, seq : Int] /\ None \notin Int
ASSUME HistoryAssumption == MaxHistory \in Nat \ {0}
ASSUME ClockAssumption == Span \in Nat \ {0} /\ MaxMs \in Nat \ {0}

\* The state of the redis backend; log and got are r_log and r_got.
VARIABLES clock, keys, kept, last, reg, chan, mon, from, seen, r_log, r_got

redisVars == <<clock, keys, kept, last, reg, chan, mon, from, seen, r_log, r_got>>

R == INSTANCE RedisStore WITH log <- r_log, got <- r_got

\* What each monitor of a redis history is given: its range, and nothing else.
RedisRangeDelivered == R!RangeDelivered

\* The redis backend keeps the storage's promise, as the simple one does.
RedisImplementsFeed == R!ImplementsFeed

\* What the tutorial says of the first reading a monitor is given.
CurrentGiven == R!CurrentGiven
=============================================================================
