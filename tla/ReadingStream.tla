---------------------------- MODULE ReadingStream ----------------------------
(***************************************************************************)
(* Readings of one device in the simple backend (drmemd/backends/          *)
(* simple.rs): Report::report_value on the drivers' side, monitor_device   *)
(* and the stream it returns on the clients'.                              *)
(*                                                                         *)
(* A device keeps its last reading and the sender of a tokio broadcast     *)
(* channel under one mutex.  A reading is represented by its timestamp,    *)
(* and log is the sequence of all of them: the last reading is the last    *)
(* of log, and the channel retains the last ChanSize.                      *)
(***************************************************************************)
EXTENDS Integers, Sequences

CONSTANTS
  Reporters,    \* holders of a Report for the device
  Monitors,     \* streams returned by monitor_device
  ChanSize,     \* readings the broadcast channel retains
  MaxTime,      \* the last representable timestamp
  MaxReadings   \* bound on the length of log

ASSUME SizeAssumption == ChanSize \in Nat \ {0}
ASSUME TimeAssumption == MaxTime \in Nat
ASSUME ReadingsAssumption == MaxReadings \in Nat

VARIABLES
  taken,    \* the timestamp a reporter took and has not yet stored
  log,      \* timestamps of the readings stored so far
  stream,   \* the state of each monitor's stream
  got       \* positions in log of the readings the stream yielded

vars == <<taken, log, stream, got>>

Times == 0..MaxTime
NoTime == -1

Phases == {"unopened", "open", "ended", "dropped"}

\* A stream its client has not asked for yet.
Unopened == [phase |-> "unopened", start |-> 0, end |-> MaxTime,
             last |-> 0, next |-> 1, lagged |-> FALSE]

Init ==
  /\ taken = [r \in Reporters |-> NoTime]
  /\ log = <<>>
  /\ stream = [m \in Monitors |-> Unopened]
  /\ got = [m \in Monitors |-> <<>>]

-----------------------------------------------------------------------------
(* Reporting. *)

\* report_value takes the time before it takes the mutex.  The system clock
\* may be stepped in either direction, so it reads as any time.
TakeTime(r, now) ==
  /\ taken[r] = NoTime
  /\ taken' = [taken EXCEPT ![r] = now]
  /\ UNCHANGED <<log, stream, got>>

\* Defect: only a clock that went backwards is corrected.
LooseTime(ts) ==
  IF log = <<>> \/ ts >= log[Len(log)]
  THEN ts
  ELSE log[Len(log)] + 1

\* The timestamp stored: a reading that is not later than the previous one
\* gets the next instant, or the last one when there is no next.
StoredTime(ts) ==
  IF log = <<>> \/ ts > log[Len(log)]
  THEN ts
  ELSE IF log[Len(log)] < MaxTime THEN log[Len(log)] + 1 ELSE MaxTime

\* With the mutex: send to the broadcast channel, update the last reading.
ReportValue(r) ==
  /\ taken[r] # NoTime
  /\ Len(log) < MaxReadings
  /\ log' = Append(log, StoredTime(taken[r]))
  /\ taken' = [taken EXCEPT ![r] = NoTime]
  /\ UNCHANGED <<stream, got>>

-----------------------------------------------------------------------------
(* Monitoring. *)

\* Position of the first reading of a stream opened when log had l readings.
FirstPosition(l) == IF l = 0 THEN 1 ELSE l

\* Defect: the last reading is read before the subscription, and a report
\* comes in between.
MonitorDeviceLate(m, s, e) ==
  /\ stream[m].phase = "unopened"
  /\ \E missed \in 0..1 :
       /\ missed <= Len(log)
       /\ stream' = [stream EXCEPT ![m] =
            [phase |-> "open", start |-> IF s <= e THEN s ELSE e,
             end |-> IF s <= e THEN e ELSE s, last |-> Len(log) - missed,
             next |-> FirstPosition(Len(log)) + missed, lagged |-> FALSE]]
  /\ UNCHANGED <<taken, log, got>>

\* monitor_device subscribes under the mutex and chains the stored last
\* reading before the receiver.  A client's range is put in order; without a
\* start or an end the range reaches to 0 or to MaxTime.
MonitorDevice(m, s, e) ==
  /\ stream[m].phase = "unopened"
  /\ stream' = [stream EXCEPT ![m] =
       [phase |-> "open",
        start |-> IF s <= e THEN s ELSE e,
        end |-> IF s <= e THEN e ELSE s,
        last |-> Len(log),
        next |-> FirstPosition(Len(log)),
        lagged |-> FALSE]]
  /\ UNCHANGED <<taken, log, got>>

\* Position of the oldest reading the channel still holds.
Oldest == IF Len(log) > ChanSize THEN Len(log) - ChanSize + 1 ELSE 1

\* The stream can yield its next reading: the copy of the last one made when
\* it was opened, or one the channel has not overwritten.
Retained(m) == stream[m].next = stream[m].last \/ stream[m].next >= Oldest

\* The reading the stream is at, and whether it passes .filter(valid).
At(m) == log[stream[m].next]
Passes(m) == stream[m].start <= At(m) /\ At(m) <= stream[m].end

\* The next reading goes through .filter(valid).take_while(not_end).
Yield(m) ==
  /\ Retained(m)
  /\ stream' = [stream EXCEPT ![m].next = @ + 1,
                              ![m].phase = IF At(m) > stream[m].end THEN "ended" ELSE "open"]
  /\ got' = IF Passes(m) THEN [got EXCEPT ![m] = Append(@, stream[m].next)] ELSE got

\* Defect: a receiver that lagged stays where it was.
LagStuck(m) ==
  /\ ~Retained(m)
  /\ stream' = [stream EXCEPT ![m].lagged = TRUE]
  /\ UNCHANGED got

\* A receiver that is too slow gets Lagged, which the stream skips, and goes
\* on from the oldest retained reading.
Lag(m) ==
  /\ ~Retained(m)
  /\ stream' = [stream EXCEPT ![m].next = Oldest, ![m].lagged = TRUE]
  /\ UNCHANGED got

\* The client polls its stream.
Poll(m) ==
  /\ stream[m].phase = "open"
  /\ stream[m].next <= Len(log)
  /\ Yield(m) \/ Lag(m)
  /\ UNCHANGED <<taken, log>>

\* The client drops its stream.
Drop(m) ==
  /\ stream[m].phase = "open"
  /\ stream' = [stream EXCEPT ![m].phase = "dropped"]
  /\ UNCHANGED <<taken, log, got>>

Next ==
  \/ \E r \in Reporters, now \in Times : TakeTime(r, now)
  \/ \E r \in Reporters : ReportValue(r)
  \/ \E m \in Monitors, s, e \in Times : MonitorDevice(m, s, e)
  \/ \E m \in Monitors : Poll(m)
  \/ \E m \in Monitors : Drop(m)

Spec == Init /\ [][Next]_vars

\* A client that keeps its stream polls it whenever it has something to yield.
FairSpec == Spec /\ \A m \in Monitors : WF_vars(Poll(m))

-----------------------------------------------------------------------------
(* Properties. *)

\* Every variable is in its type; in particular no timestamp exceeds the
\* representable ones.
TypeOK ==
  /\ taken \in [Reporters -> Times \cup {NoTime}]
  /\ log \in Seq(Times)
  /\ stream \in [Monitors -> [phase : Phases, start : Times, end : Times,
                              last : Nat, next : Nat \ {0}, lagged : BOOLEAN]]
  /\ got \in [Monitors -> Seq(Nat \ {0})]

\* The backend keeps the storage's promise although several reporters take
\* their timestamps before the mutex, in an order that is not the order in
\* which they get it, and although the system clock may step back.
Feed == INSTANCE ReadingFeed
ImplementsFeed == Feed!Spec

\* A stream that kept up has yielded exactly the readings of its range, from
\* the one that was current when it was opened: none was lost or doubled
\* between the stored reading and the channel.
RangeDelivered ==
  \A m \in Monitors :
    stream[m].phase # "unopened" /\ ~stream[m].lagged =>
      {got[m][i] : i \in 1..Len(got[m])} =
        {p \in FirstPosition(stream[m].last)..(stream[m].next - 1) :
           stream[m].start <= log[p] /\ log[p] <= stream[m].end}

\* A client that keeps polling is brought up to date, lagging or not.
CatchesUp ==
  \A m \in Monitors : <>[](stream[m].phase = "open" => stream[m].next > Len(log))
=============================================================================
