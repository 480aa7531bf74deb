---------------------------- MODULE RedisStore ----------------------------
(***************************************************************************)
(* One device of the redis backend (drmemd/backends/redis.rs): the keys    *)
(* NAME#info and NAME#hist, the drivers that register the device and       *)
(* report it, and the clients that monitor it, each over a connection of   *)
(* its own.  Redis itself is external; its commands answer as its          *)
(* documentation says, or are refused.                                     *)
(***************************************************************************)
EXTENDS Integers, Sequences

CONSTANTS
  Drivers,      \* driver instances configured with the device
  Monitors,     \* clients of monitor_device
  Requests,     \* the [start, end] ranges that clients ask for
  None,         \* no driver, no position
  MaxHistory,   \* max_history of the device
  Span,         \* microseconds of a millisecond (1000)
  MaxMs,        \* bound on redis' clock, in milliseconds
  MaxReadings   \* bound on the readings of the history

VARIABLES
  clock,   \* redis' clock, which may be set
  keys,    \* the device's two keys: "none", "good" (of the right types) or "bad"
  log,     \* ids of the readings added since the device was initialized
  kept,    \* position in log of the oldest reading that was not trimmed
  last,    \* the last id of the stream
  reg,     \* drivers that registered the device
  chan,    \* the driver whose setting channel is in the table
  mon,     \* the ReadingStream of each monitor; a monitor opens one
  got,     \* positions in log of the readings each monitor was given
  from,    \* the time each monitor asked for, or that of the current reading
  seen     \* length of log when each monitor was opened

dev == <<keys, log, kept, last, reg, chan>>
vars == <<clock, dev, mon, got, from, seen>>

-----------------------------------------------------------------------------
(* Identifiers and times. *)

Unset == 0   \* no start or end time

Lesser(a, b) == IF a < b THEN a ELSE b
Greater(a, b) == IF a < b THEN b ELSE a

Before(i, j) == i.ms < j.ms \/ (i.ms = j.ms /\ i.seq < j.seq)

\* id_to_ts: the sequence number is taken for microseconds, and clipped.
Ts(id) == id.ms * Span + Lesser(id.seq, Span - 1)

\* ts_to_id
IdOf(ts) == [ms |-> ts \div Span, seq |-> ts % Span]

\* Redis' choice for XADD "*".
NextId ==
  IF clock > last.ms THEN [ms |-> clock, seq |-> 0]
                     ELSE [ms |-> last.ms, seq |-> last.seq + 1]

\* XREAD COUNT 1 from an id: the position of the oldest reading after it.
ReadFrom(id) == {p \in kept..Len(log) : Before(id, log[p]) /\ \A q \in kept..(p - 1) : ~Before(id, log[q])}

Closed == [phase |-> "closed", id |-> None, end |-> Unset, at |-> 0, rid |-> None]
Ended == [Closed EXCEPT !.phase = "ended"]

Init ==
  /\ clock = 1
  /\ keys \in {"none", "good", "bad"}
  /\ log = <<>>
  /\ kept = 1
  /\ last = [ms |-> 0, seq |-> 0]
  /\ reg = {}
  /\ chan = None
  /\ mon = [m \in Monitors |-> Closed]
  /\ got = [m \in Monitors |-> <<>>]
  /\ from = [m \in Monitors |-> None]
  /\ seen = [m \in Monitors |-> 0]

-----------------------------------------------------------------------------
(* Registration. *)

\* init_device: one transaction deletes both keys and creates them again.
\* Replies under way are of the old history.
InitDevice ==
  /\ keys' = "good"
  /\ log' = <<>>
  /\ kept' = 1
  /\ last' = [ms |-> 1, seq |-> 0]
  /\ got' = [m \in Monitors |-> <<>>]
  /\ seen' = [m \in Monitors |-> 0]
  /\ mon' = [m \in Monitors |-> [mon[m] EXCEPT !.at = 0]]
  /\ from' = [m \in Monitors |-> None]

\* register_read_only_device and register_read_write_device.  Either TYPE
\* command may be refused, which is taken for a missing device.
Register(d) ==
  /\ d \notin reg
  /\ \/ keys = "good" /\ UNCHANGED <<keys, log, kept, last, mon, got, seen, from>>
     \/ InitDevice
  /\ reg' = reg \union {d}
  /\ chan' = d
  /\ UNCHANGED clock

-----------------------------------------------------------------------------
(* Reports. *)

\* MAXLEN ~ n trims whole nodes of the stream, so at least n readings stay.
Trimmed(n) == {k \in kept..(n + 1) : k = kept \/ n - k + 1 >= MaxHistory}

\* Redis answers the blocked readers with the reading that was added.
Wake(mo, p, id) ==
  IF mo.phase = "blocked" /\ Before(mo.rid, id)
    THEN [mo EXCEPT !.phase = "answered", !.at = p, !.rid = id] ELSE mo

\* report_value.  A report that redis refuses is only logged.
ReportValue(d) ==
  /\ d \in reg
  /\ Len(log) < MaxReadings
  /\ LET n == Len(log) + 1 IN
       /\ log' = Append(log, NextId)
       /\ last' = NextId
       /\ kept' \in Trimmed(n)
       /\ mon' = [m \in Monitors |-> Wake(mon[m], n, NextId)]
  /\ UNCHANGED <<clock, keys, reg, chan, got, from, seen>>

-----------------------------------------------------------------------------
(* Monitors. *)

Earliest(r) == IF r.end = Unset THEN r.start ELSE Lesser(r.start, r.end)

\* The id a stream starts after: one microsecond before its start time or the
\* last reading; the end ("$") when there is none.  XREVRANGE may be refused.
FirstIds(r) ==
  IF r.start # Unset THEN {IdOf(Earliest(r) - 1)}
  ELSE {None} \union (IF kept <= Len(log) THEN {IdOf(Ts(log[Len(log)]) - 1)} ELSE {})

\* monitor_device.  Without a connection the stream is empty.
MonitorDevice(m, r) ==
  /\ mon[m].phase = "closed"
  /\ \/ \E i \in FirstIds(r) :
          /\ mon' = [mon EXCEPT ![m] = [phase |-> "unsent", id |-> i, at |-> 0, rid |-> None,
                       end |-> IF r.end = Unset THEN Unset ELSE Greater(r.start, r.end)]]
          /\ from' = [from EXCEPT ![m] = IF r.start # Unset THEN Earliest(r)
                                        ELSE IF i = None THEN None ELSE Ts(log[Len(log)])]
     \/ mon' = [mon EXCEPT ![m] = Ended] /\ UNCHANGED from
  /\ seen' = [seen EXCEPT ![m] = Len(log)]
  /\ UNCHANGED <<clock, dev, got>>

\* mk_fut, polled: XREAD BLOCK from i, or from the end of the stream.
Send(m, i) ==
  LET after == IF i = None THEN last ELSE i
      p == CHOOSE q \in ReadFrom(after) : TRUE
  IN  mon' = [mon EXCEPT ![m] =
        IF ReadFrom(after) = {} THEN [@ EXCEPT !.phase = "blocked", !.rid = after]
        ELSE [@ EXCEPT !.phase = "answered", !.at = p, !.rid = log[p]]]

\* Defect: a read that timed out continues from the end of the stream.
ResendFromEnd(m) ==
  /\ mon[m].phase = "nil"
  /\ Send(m, None)
  /\ UNCHANGED <<clock, dev, got, from, seen>>

\* poll_next of a new future, which sends its command.
PollSends(m) ==
  /\ mon[m].phase = "unsent"
  /\ Send(m, mon[m].id)
  /\ UNCHANGED <<clock, dev, got, from, seen>>

\* poll_next after a timeout: the same command again.
PollRetries(m) ==
  /\ mon[m].phase = "nil"
  /\ Send(m, mon[m].id)
  /\ UNCHANGED <<clock, dev, got, from, seen>>

\* Defect: the next command reads from where this one did.
PollYieldsInPlace(m) ==
  /\ mon[m].phase = "answered"
  /\ mon' = [mon EXCEPT ![m].phase = "unsent", ![m].at = 0, ![m].rid = None]
  /\ got' = IF mon[m].at = 0 THEN got ELSE [got EXCEPT ![m] = Append(@, mon[m].at)]
  /\ UNCHANGED <<clock, dev, from, seen>>

\* poll_next yields the reading; take_while ends the stream after its range.
PollYields(m) ==
  /\ mon[m].phase = "answered"
  /\ IF mon[m].end = Unset \/ Ts(mon[m].rid) <= mon[m].end
       THEN /\ mon' = [mon EXCEPT ![m].phase = "unsent", ![m].id = mon[m].rid,
                                  ![m].at = 0, ![m].rid = None]
            /\ got' = IF mon[m].at = 0 THEN got ELSE [got EXCEPT ![m] = Append(@, mon[m].at)]
       ELSE /\ mon' = [mon EXCEPT ![m] = Ended]
            /\ UNCHANGED got
  /\ UNCHANGED <<clock, dev, from, seen>>

\* XREAD's BLOCK of five seconds runs out.
TimesOut(m) ==
  /\ mon[m].phase = "blocked"
  /\ mon' = [mon EXCEPT ![m].phase = "nil", ![m].rid = None]
  /\ UNCHANGED <<clock, dev, got, from, seen>>

\* An error of the connection ends the stream; a client may drop it.
Fails(m) ==
  /\ mon[m].phase \in {"unsent", "blocked", "answered", "nil"}
  /\ mon' = [mon EXCEPT ![m] = Ended]
  /\ UNCHANGED <<clock, dev, got, from, seen>>

-----------------------------------------------------------------------------
(* The environment. *)

\* drmemd is started again: the history stays in redis.
Restart ==
  /\ reg # {}
  /\ reg' = {}
  /\ chan' = None
  /\ mon' = [m \in Monitors |-> IF mon[m].phase = "closed" THEN Closed ELSE Ended]
  /\ UNCHANGED <<clock, keys, log, kept, last, got, from, seen>>

SetClock(t) ==
  /\ clock' = t
  /\ UNCHANGED <<dev, mon, got, from, seen>>

Next ==
  \/ \E d \in Drivers : Register(d) \/ ReportValue(d)
  \/ \E m \in Monitors : \/ \E r \in Requests : MonitorDevice(m, r)
                         \/ PollSends(m) \/ PollRetries(m) \/ PollYields(m)
                         \/ TimesOut(m) \/ Fails(m)
  \/ Restart
  \/ \E t \in 1..MaxMs : SetClock(t)

Spec == Init /\ [][Next]_vars

-----------------------------------------------------------------------------
(* Properties. *)

Given(m) == {got[m][k] : k \in 1..Len(got[m])}

\* Every reading a stream yields lies in its range (or a microsecond before it,
\* as the last of more readings of one millisecond than it has microseconds),
\* and a stream that waits
\* for redis has missed no reading of its range that redis still has, although
\* its reads time out and readings arrive between one command and the next.
\* A device without a reading has no time to start from.
RangeDelivered ==
  \A m \in Monitors :
    /\ mon[m].end # Unset => \A p \in Given(m) : Ts(log[p]) <= mon[m].end
    /\ from[m] # None => \A p \in Given(m) : Ts(log[p]) + 1 >= from[m]
    /\ mon[m].phase = "blocked" /\ from[m] # None =>
         \A p \in kept..Len(log) : Ts(log[p]) >= from[m] => p \in Given(m)

\* The backend's history and streams are those of ReadingFeed, in the order of
\* redis' ids, except when the device is initialized again.
Feed == INSTANCE ReadingFeed WITH
  MaxTime <- (MaxMs + 1) * (MaxReadings + 1),
  log <- [p \in 1..Len(log) |-> log[p].ms * (MaxReadings + 1) + log[p].seq]

Begins == Feed!Init'

ImplementsFeed == Feed!Init /\ [][Feed!Next \/ Begins]_<<log, got>>

\* What the tutorial says (TUTORIAL.md:172): a monitor is always given the
\* current value, then it waits for updates.
CurrentGiven ==
  \A m \in Monitors : mon[m].phase = "blocked" =>
    \A p \in kept..Len(log) : p > seen[m] => p \in Given(m)
=============================================================================
