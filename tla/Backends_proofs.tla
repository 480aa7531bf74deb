-------------------------- MODULE Backends_proofs --------------------------
(***************************************************************************)
(* Proofs about the histories of a device: in the simple backend for any   *)
(* number of reporters and monitors, any channel capacity and any clock,   *)
(* in redis for any number of drivers and monitors, any ranges that they   *)
(* ask for and any setting of redis' clock.                                *)
(***************************************************************************)
EXTENDS Backends, TLAPS, WellFoundedInduction, SequenceTheorems

-----------------------------------------------------------------------------
(* The simple backend. *)

USE SizeAssumption, TimeAssumption, ReadingsAssumption

\* A timestamp that is stored is representable, and follows the previous one.
LEMMA StoredTimeFollows ==
  ASSUME NEW ts \in Times, log \in Seq(Times)
  PROVE  /\ StoredTime(ts) \in Times
         /\ log # <<>> => log[Len(log)] < StoredTime(ts) \/ StoredTime(ts) = MaxTime
<1>1. CASE log = <<>>
  BY <1>1 DEF StoredTime
<1>2. CASE log # <<>>
  <2>1. log[Len(log)] \in Times
    BY <1>2
  <2> QED BY <1>2, <2>1 DEF StoredTime, Times
<1> QED BY <1>1, <1>2

\* A poll updates a stream's cursor, and may end it or mark it as lagging.
Streams == [Monitors -> [phase : Phases, start : Times, end : Times,
                         last : Nat, next : Nat \ {0}, lagged : BOOLEAN]]

\* A stream that is updated is a stream.
LEMMA StreamUpdated ==
  ASSUME stream \in Streams, NEW m \in Monitors, NEW n \in Nat \ {0}
  PROVE  /\ \A ph \in Phases :
              [stream EXCEPT ![m].next = n, ![m].phase = ph] \in Streams
         /\ [stream EXCEPT ![m].next = n, ![m].lagged = TRUE] \in Streams
BY DEF Streams

\* Every variable keeps its type: no timestamp overflows.
THEOREM TypeCorrect == Spec => []TypeOK
<1>1. Init => TypeOK
  BY DEF Init, TypeOK, Unopened, Phases, Times
<1>2. TypeOK /\ [Next]_vars => TypeOK'
  <2> SUFFICES ASSUME TypeOK, [Next]_vars
               PROVE  TypeOK'
    OBVIOUS
  <2> USE DEF TypeOK
  <2>1. ASSUME NEW r \in Reporters, NEW now \in Times, TakeTime(r, now)
        PROVE  TypeOK'
    BY <2>1 DEF TakeTime
  <2>2. ASSUME NEW r \in Reporters, ReportValue(r)
        PROVE  TypeOK'
    <3>1. taken[r] \in Times /\ taken' \in [Reporters -> Times \cup {NoTime}]
      BY <2>2 DEF ReportValue
    <3>2. log' \in Seq(Times)
      BY <2>2, <3>1, StoredTimeFollows DEF ReportValue
    <3> QED BY <2>2, <3>1, <3>2 DEF ReportValue
  <2>3. ASSUME NEW m \in Monitors, NEW s \in Times, NEW e \in Times, MonitorDevice(m, s, e)
        PROVE  TypeOK'
    <3>1. Len(log) \in Nat /\ FirstPosition(Len(log)) \in Nat \ {0}
      BY DEF FirstPosition
    <3> QED BY <2>3, <3>1 DEF MonitorDevice, Phases
  <2>4. ASSUME NEW m \in Monitors, Poll(m)
        PROVE  TypeOK'
    <3>1. stream[m].next \in Nat \ {0} /\ stream[m].next + 1 \in Nat \ {0}
      OBVIOUS
    <3>2. CASE Yield(m)
      <4>1. taken' = taken /\ log' = log
        BY <2>4 DEF Poll
      <4>2. got' \in [Monitors -> Seq(Nat \ {0})]
        <5>1. Append(got[m], stream[m].next) \in Seq(Nat \ {0})
          BY <3>1
        <5> QED BY <3>2, <5>1 DEF Yield
      <4> DEFINE n == stream[m].next + 1
                 ph == IF At(m) > stream[m].end THEN "ended" ELSE "open"
      <4>3. /\ stream' = [stream EXCEPT ![m].next = n, ![m].phase = ph]
            /\ n \in Nat \ {0} /\ ph \in Phases /\ stream \in Streams
        BY <3>1, <3>2 DEF Yield, Phases, Streams
      <4>4. stream' \in Streams
        <5> HIDE DEF n, ph, TypeOK
        <5> QED BY <4>3, StreamUpdated
      <4> QED BY <4>1, <4>2, <4>4 DEF Streams
    <3>3. CASE Lag(m)
      <4>1. Oldest \in Nat \ {0}
        BY DEF Oldest
      <4>2. stream' = [stream EXCEPT ![m].next = Oldest, ![m].lagged = TRUE]
        BY <3>3 DEF Lag
      <4>3. stream' \in Streams
        BY <4>1, <4>2, StreamUpdated DEF Streams
      <4> QED BY <2>4, <3>3, <4>3 DEF Poll, Lag, Streams
    <3> QED BY <2>4, <3>2, <3>3 DEF Poll
  <2>5. ASSUME NEW m \in Monitors, Drop(m)
        PROVE  TypeOK'
    BY <2>5 DEF Drop, Phases
  <2>6. CASE UNCHANGED vars
    BY <2>6 DEF vars
  <2> QED BY <2>1, <2>2, <2>3, <2>4, <2>5, <2>6 DEF Next
<1> QED BY <1>1, <1>2, PTL DEF Spec

-----------------------------------------------------------------------------
(* The refinement.  A step of a stream is a step of the feed because what it *)
(* yielded lies behind its cursor, and the cursor never passes the log.      *)

Behind ==
  \A m \in Monitors :
    /\ stream[m].last <= Len(log)
    /\ stream[m].next <= Len(log) + 1
    /\ stream[m].phase = "unopened" => got[m] = <<>>
    /\ got[m] # <<>> => got[m][Len(got[m])] < stream[m].next

\* What a stream yielded stays behind its cursor, whatever the other parties do.
LEMMA BehindInductive == TypeOK /\ Behind /\ [Next]_vars => Behind'
<1> SUFFICES ASSUME TypeOK, Behind, [Next]_vars
             PROVE  Behind'
  OBVIOUS
<1> USE DEF TypeOK, Behind
<1>1. ASSUME NEW r \in Reporters, NEW now \in Times, TakeTime(r, now)
      PROVE  Behind'
  BY <1>1 DEF TakeTime
<1>2. ASSUME NEW r \in Reporters, ReportValue(r)
      PROVE  Behind'
  <2>1. Len(log') = Len(log) + 1
    BY <1>2, StoredTimeFollows DEF ReportValue
  <2> QED BY <1>2, <2>1 DEF ReportValue
<1>3. ASSUME NEW m \in Monitors, NEW s \in Times, NEW e \in Times, MonitorDevice(m, s, e)
      PROVE  Behind'
  <2>1. Len(log) \in Nat /\ FirstPosition(Len(log)) <= Len(log) + 1
    BY DEF FirstPosition
  <2> QED BY <1>3, <2>1 DEF MonitorDevice
<1>4. ASSUME NEW m \in Monitors, Poll(m)
      PROVE  Behind'
  <2>1. stream[m].next <= Len(log) /\ log' = log
    BY <1>4 DEF Poll
  <2>2. CASE Yield(m)
    <3>1. /\ stream[m].phase = "open" /\ stream'[m].phase # "unopened"
          /\ stream'[m].last = stream[m].last /\ stream'[m].next = stream[m].next + 1
          /\ \A k \in Monitors : k # m => stream'[k] = stream[k] /\ got'[k] = got[k]
          /\ got'[m] \in {got[m], Append(got[m], stream[m].next)}
      BY <1>4, <2>2 DEF Poll, Yield
    <3>2. got'[m] # <<>> => got'[m][Len(got'[m])] < stream'[m].next
      <4>1. /\ got[m] \in Seq(Nat \ {0}) /\ stream[m].next \in Nat \ {0}
            /\ got[m] # <<>> => got[m][Len(got[m])] < stream[m].next
        OBVIOUS
      <4>2. CASE got'[m] = got[m]
        <5>1. got[m] # <<>> => got[m][Len(got[m])] \in Nat
          BY <4>1
        <5> QED BY <3>1, <4>1, <4>2, <5>1
      <4>3. CASE got'[m] = Append(got[m], stream[m].next)
        <5>1. got'[m][Len(got'[m])] = stream[m].next
          BY <4>1, <4>3
        <5> QED BY <3>1, <4>1, <5>1
      <4> QED BY <3>1, <4>2, <4>3
    <3> SUFFICES ASSUME NEW k \in Monitors
                 PROVE  /\ stream'[k].last <= Len(log) /\ stream'[k].next <= Len(log) + 1
                        /\ stream'[k].phase = "unopened" => got'[k] = <<>>
                        /\ got'[k] # <<>> => got'[k][Len(got'[k])] < stream'[k].next
      BY <2>1
    <3>3. CASE k = m
      <4>1. stream[m].next \in Nat /\ Len(log) \in Nat /\ stream[m].last <= Len(log)
        OBVIOUS
      <4> HIDE DEF TypeOK, Behind
      <4>2. stream'[m].last <= Len(log) /\ stream'[m].next <= Len(log) + 1
        BY <2>1, <3>1, <4>1
      <4> QED BY <3>1, <3>2, <3>3, <4>2
    <3>4. CASE k # m
      BY <3>1, <3>4
    <3> QED BY <3>3, <3>4
  <2>3. CASE Lag(m)
    <3>1. Oldest \in Nat /\ Oldest <= Len(log) + 1
      BY DEF Oldest
    <3>2. stream[m].next < Oldest
      BY <2>3, <3>1 DEF Lag, Retained
    <3>3. /\ stream[m].phase = "open" /\ stream'[m].phase = "open"
          /\ stream'[m].last = stream[m].last /\ stream'[m].next = Oldest
          /\ \A k \in Monitors : k # m => stream'[k] = stream[k]
          /\ got' = got
      BY <1>4, <2>3 DEF Poll, Lag
    <3>4. got[m] # <<>> => got[m][Len(got[m])] < Oldest
      <4>1. stream[m].next \in Nat /\ (got[m] # <<>> => got[m][Len(got[m])] < stream[m].next)
        OBVIOUS
      <4>2. got[m] # <<>> => got[m][Len(got[m])] \in Nat
        OBVIOUS
      <4> QED BY <3>1, <3>2, <4>1, <4>2
    <3> HIDE DEF TypeOK
    <3> QED BY <2>1, <3>1, <3>3, <3>4
  <2> QED BY <1>4, <2>2, <2>3 DEF Poll
<1>5. ASSUME NEW m \in Monitors, Drop(m)
      PROVE  Behind'
  BY <1>5 DEF Drop
<1>6. CASE UNCHANGED vars
  BY <1>6 DEF vars
<1> QED BY <1>1, <1>2, <1>3, <1>4, <1>5, <1>6 DEF Next

\* The simple backend implements the storage's promise: timestamps increase
\* until time runs out and no stream yields a reading twice or out of order.
THEOREM StreamImplementsFeed == Spec => ImplementsFeed
<1>1. Init => Feed!Init /\ Behind
  BY DEF Init, Feed!Init, Behind, Unopened
<1>2. TypeOK /\ TypeOK' /\ Behind /\ [Next]_vars => [Feed!Next]_(Feed!vars)
  <2> SUFFICES ASSUME TypeOK, Behind, [Next]_vars
               PROVE  Feed!Next \/ UNCHANGED <<log, got>>
    BY DEF Feed!vars
  <2> USE DEF TypeOK
  <2>1. ASSUME NEW r \in Reporters, ReportValue(r)
        PROVE  Feed!Next
    <3> DEFINE ts == StoredTime(taken[r])
    <3>1. taken[r] \in Times
      BY <2>1 DEF ReportValue
    <3>2. ts \in 0..MaxTime /\ (log = <<>> \/ log[Len(log)] < ts \/ ts = MaxTime)
      BY <3>1, StoredTimeFollows DEF Times
    <3>3. Feed!Add(ts)
      BY <2>1, <3>2 DEF ReportValue, Feed!Add, Feed!Follows
    <3> QED BY <3>2, <3>3 DEF Feed!Next
  <2>2. ASSUME NEW m \in Monitors, Poll(m)
        PROVE  Feed!Next \/ UNCHANGED <<log, got>>
    <3>1. CASE Yield(m) /\ Passes(m)
      <4> DEFINE p == stream[m].next
      <4>1. p \in 1..Len(log)
        BY <2>2 DEF Poll
      <4>2. Feed!Give(m, p)
        BY <2>2, <3>1 DEF Poll, Yield, Behind, Feed!Give
      <4> QED BY <4>1, <4>2 DEF Feed!Next
    <3>2. CASE (Yield(m) /\ ~Passes(m)) \/ Lag(m)
      BY <2>2, <3>2 DEF Poll, Yield, Lag
    <3> QED BY <2>2, <3>1, <3>2 DEF Poll
  <2> QED
    BY <2>1, <2>2 DEF Next, TakeTime, MonitorDevice, Drop, vars
<1> QED
  BY <1>1, <1>2, BehindInductive, TypeCorrect, PTL DEF Spec, ImplementsFeed, Feed!Spec

-----------------------------------------------------------------------------
(* The range of a stream.  What a stream yielded stays what it should have   *)
(* yielded because the positions behind its cursor are positions of readings *)
(* already stored, which a later report does not change.                     *)

\* A stream starts at the reading that was current when it was opened.
Started ==
  \A m \in Monitors :
    stream[m].phase # "unopened" => FirstPosition(stream[m].last) <= stream[m].next

RangeInv == Behind /\ Started /\ RangeDelivered

\* The positions a stream should have yielded, and those it did.
Due(m) == {p \in FirstPosition(stream[m].last)..(stream[m].next - 1) :
             stream[m].start <= log[p] /\ log[p] <= stream[m].end}
Yielded(m) == {got[m][i] : i \in 1..Len(got[m])}

\* Storing a reading changes no position of the log that was there.
LEMMA LogGrows ==
  ASSUME TypeOK, NEW r \in Reporters, ReportValue(r)
  PROVE  Len(log') = Len(log) + 1 /\ \A p \in 1..Len(log) : log'[p] = log[p]
<1>1. taken[r] \in Times /\ log \in Seq(Times)
  BY DEF ReportValue, TypeOK
<1>2. StoredTime(taken[r]) \in Times
  BY <1>1, StoredTimeFollows
<1> QED BY <1>1, <1>2 DEF ReportValue

\* Yielding a reading adds its position, if it is in the stream's range.
LEMMA YieldDelivers ==
  ASSUME TypeOK, RangeInv, NEW m \in Monitors, Poll(m), Yield(m), ~stream[m].lagged
  PROVE  Yielded(m)' = Due(m)'
<1> DEFINE n == stream[m].next
           g == got[m]
           a == FirstPosition(stream[m].last)
           s == stream[m].start
           e == stream[m].end
<1>1. /\ n \in Nat \ {0} /\ g \in Seq(Nat \ {0}) /\ a \in Nat /\ a <= n
      /\ Yielded(m) = Due(m)
  BY DEF TypeOK, RangeInv, Started, RangeDelivered, Poll, FirstPosition, Yielded, Due
<1>2. /\ log' = log /\ stream'[m].last = stream[m].last /\ stream'[m].next = n + 1
      /\ stream'[m].start = s /\ stream'[m].end = e
      /\ got'[m] = IF s <= log[n] /\ log[n] <= e THEN Append(g, n) ELSE g
  BY DEF Poll, Yield, Passes, At, TypeOK
<1>3. Due(m) = {p \in a..(n - 1) : s <= log[p] /\ log[p] <= e}
  BY DEF Due
<1>4. Due(m)' = {p \in a..n : s <= log[p] /\ log[p] <= e}
  <2>1. FirstPosition(stream'[m].last) = a /\ stream'[m].next - 1 = n
    BY <1>1, <1>2 DEF FirstPosition
  <2> QED BY <1>2, <2>1 DEF Due
<1>5. CASE s <= log[n] /\ log[n] <= e
  <2>1. got'[m] = Append(g, n)
    BY <1>2, <1>5
  <2>2. {Append(g, n)[i] : i \in 1..Len(Append(g, n))} = {g[i] : i \in 1..Len(g)} \cup {n}
    <3> DEFINE h == Append(g, n)
    <3>1. /\ Len(g) \in Nat /\ Len(h) = Len(g) + 1 /\ h[Len(g) + 1] = n
          /\ \A i \in 1..Len(g) : h[i] = g[i]
      BY <1>1
    <3> HIDE DEF h, g, n
    <3>2. 1..Len(h) = (1..Len(g)) \cup {Len(g) + 1}
      BY <3>1
    <3>3. {h[i] : i \in 1..Len(h)} = {g[i] : i \in 1..Len(g)} \cup {n}
      BY <3>1, <3>2
    <3> QED BY <3>3 DEF h
  <2>3. Yielded(m)' = Yielded(m) \cup {n}
    BY <2>1, <2>2 DEF Yielded
  <2>4. Due(m)' = Due(m) \cup {n}
    BY <1>1, <1>3, <1>4, <1>5
  <2> QED BY <1>1, <2>3, <2>4
<1>6. CASE ~(s <= log[n] /\ log[n] <= e)
  <2>1. Yielded(m)' = Yielded(m)
    BY <1>2, <1>6 DEF Yielded
  <2>2. Due(m)' = Due(m)
    BY <1>1, <1>3, <1>4, <1>6
  <2> QED BY <1>1, <2>1, <2>2
<1> QED BY <1>5, <1>6

\* Nothing a stream relies on is disturbed by the other parties.
LEMMA RangeInvInductive == TypeOK /\ RangeInv /\ [Next]_vars => RangeInv'
<1> SUFFICES ASSUME TypeOK, RangeInv, [Next]_vars
             PROVE  Started' /\ RangeDelivered'
  BY BehindInductive DEF RangeInv
<1> DEFINE Fine(k) == stream[k].phase # "unopened" =>
                        /\ FirstPosition(stream[k].last) <= stream[k].next
                        /\ ~stream[k].lagged => Yielded(k) = Due(k)
<1> SUFFICES ASSUME NEW k \in Monitors
             PROVE  Fine(k)'
  BY DEF Started, RangeDelivered, Yielded, Due
<1>a. Fine(k)
  BY DEF RangeInv, Started, RangeDelivered, Yielded, Due
<1>b. CASE stream'[k] = stream[k] /\ got'[k] = got[k] /\ log' = log
  <2>1. Yielded(k)' = Yielded(k) /\ Due(k)' = Due(k)
    BY <1>b DEF Yielded, Due
  <2> QED BY <1>a, <1>b, <2>1
<1>1. ASSUME NEW r \in Reporters, ReportValue(r)
      PROVE  Fine(k)'
  <2>1. stream' = stream /\ got' = got
    BY <1>1 DEF ReportValue
  <2>2. ASSUME stream[k].phase # "unopened"
        PROVE  Due(k)' = Due(k)
    <3>1. /\ stream[k].last \in Nat /\ stream[k].next \in Nat /\ stream[k].next <= Len(log) + 1
          /\ Len(log) \in Nat
      BY DEF TypeOK, RangeInv, Behind
    <3>2. \A p \in FirstPosition(stream[k].last)..(stream[k].next - 1) : p \in 1..Len(log)
      BY <3>1 DEF FirstPosition
    <3>3. \A p \in FirstPosition(stream[k].last)..(stream[k].next - 1) : log'[p] = log[p]
      BY <1>1, <3>2, LogGrows
    <3> QED BY <2>1, <3>3 DEF Due
  <2>3. Yielded(k)' = Yielded(k)
    BY <2>1 DEF Yielded
  <2> QED BY <1>a, <2>1, <2>2, <2>3
<1>2. ASSUME NEW m \in Monitors, NEW s \in Times, NEW e \in Times, MonitorDevice(m, s, e)
      PROVE  Fine(k)'
  <2>1. CASE k = m
    <3>1. /\ stream'[k].last = Len(log) /\ stream'[k].next = FirstPosition(Len(log))
          /\ got'[k] = <<>> /\ Len(log) \in Nat
      BY <1>2, <2>1 DEF MonitorDevice, TypeOK, RangeInv, Behind
    <3>2. FirstPosition(Len(log)) \in Nat
      BY <3>1 DEF FirstPosition
    <3>3. Yielded(k)' = {} /\ Due(k)' = {}
      BY <3>1, <3>2 DEF Yielded, Due
    <3> QED BY <3>1, <3>2, <3>3
  <2>2. CASE k # m
    BY <1>2, <1>b, <2>2 DEF MonitorDevice, TypeOK
  <2> QED BY <2>1, <2>2
<1>3. ASSUME NEW m \in Monitors, Poll(m)
      PROVE  Fine(k)'
  <2>1. CASE k # m
    BY <1>3, <1>b, <2>1 DEF Poll, Yield, Lag, TypeOK
  <2>2. CASE k = m /\ Yield(m)
    <3>1. /\ stream[k].phase = "open" /\ stream[k].next \in Nat /\ stream[k].last \in Nat
          /\ stream'[k].last = stream[k].last /\ stream'[k].next = stream[k].next + 1
      BY <1>3, <2>2 DEF Poll, Yield, TypeOK
    <3>2. FirstPosition(stream'[k].last) <= stream'[k].next
      BY <1>a, <3>1 DEF FirstPosition
    <3>3. stream'[k].lagged = stream[k].lagged
      BY <2>2 DEF Yield, TypeOK
    <3>4. ~stream'[k].lagged => Yielded(k)' = Due(k)'
      BY <1>3, <2>2, <3>3, YieldDelivers
    <3> QED BY <3>2, <3>4
  <2>3. CASE k = m /\ Lag(m)
    <3>1. /\ stream[k].phase = "open" /\ stream[k].next \in Nat /\ stream[k].last \in Nat
          /\ stream'[k].last = stream[k].last /\ stream'[k].next = Oldest
          /\ stream[k].next < Oldest
      BY <1>3, <2>3 DEF Poll, Lag, Retained, TypeOK, Oldest
    <3>2. Oldest \in Nat
      BY DEF Oldest, TypeOK
    <3>3. FirstPosition(stream'[k].last) <= stream'[k].next
      BY <1>a, <3>1, <3>2 DEF FirstPosition
    <3>4. stream'[k].lagged
      BY <2>3 DEF Lag, TypeOK
    <3> QED BY <3>3, <3>4
  <2> QED BY <1>3, <2>1, <2>2, <2>3 DEF Poll
<1>4. ASSUME NEW m \in Monitors, Drop(m)
      PROVE  Fine(k)'
  <2>1. CASE k = m
    <3>1. /\ stream[k].phase = "open" /\ stream'[k] = [stream[k] EXCEPT !.phase = "dropped"]
          /\ got' = got /\ log' = log
      BY <1>4, <2>1 DEF Drop, TypeOK
    <3>2. /\ stream'[k].last = stream[k].last /\ stream'[k].next = stream[k].next
          /\ stream'[k].start = stream[k].start /\ stream'[k].end = stream[k].end
          /\ stream'[k].lagged = stream[k].lagged
      BY <3>1 DEF TypeOK
    <3>3. Yielded(k)' = Yielded(k) /\ Due(k)' = Due(k)
      BY <3>1, <3>2 DEF Yielded, Due
    <3> QED BY <1>a, <3>1, <3>2, <3>3
  <2>2. CASE k # m
    BY <1>4, <1>b, <2>2 DEF Drop, TypeOK
  <2> QED BY <2>1, <2>2
<1>5. ASSUME NEW r \in Reporters, NEW now \in Times, TakeTime(r, now)
      PROVE  Fine(k)'
  BY <1>5, <1>b DEF TakeTime
<1>6. CASE UNCHANGED vars
  BY <1>6, <1>b DEF vars
<1> HIDE DEF Fine
<1> QED BY <1>1, <1>2, <1>3, <1>4, <1>5, <1>6 DEF Next

\* A stream that kept up has yielded the readings of its range, all of them
\* and no other: nothing falls between the stored reading and the channel.
THEOREM StreamDeliversItsRange == Spec => []RangeDelivered
<1>1. Init => RangeInv
  BY DEF Init, RangeInv, Behind, Started, RangeDelivered, Unopened
<1>2. RangeInv => RangeDelivered
  BY DEF RangeInv
<1> QED BY <1>1, <1>2, RangeInvInductive, TypeCorrect, PTL DEF Spec

-----------------------------------------------------------------------------
(* The redis backend. *)

USE NoneAssumption, HistoryAssumption, ClockAssumption, RequestsAssumption

Ids == [ms : Int, seq : Int]
Active == {"unsent", "blocked", "answered", "nil"}

-----------------------------------------------------------------------------
(* Ids and times. *)

\* Products grow with their factors.
LEMMA Steps ==
  ASSUME NEW a \in Int, NEW b \in Int, NEW k \in Nat, a < b
  PROVE  a * k + k <= b * k
<1>1. (b - a - 1) * k >= 0
  OBVIOUS
<1>2. b * k = a * k + k + (b - a - 1) * k
  OBVIOUS
<1> QED
  BY <1>1, <1>2

\* A time is that of its id.
LEMMA TimeOfId ==
  ASSUME NEW t \in Int
  PROVE  /\ R!IdOf(t) \in Ids
         /\ R!IdOf(t).seq \in 0..(Span - 1)
         /\ t = R!IdOf(t).ms * Span + R!IdOf(t).seq
<1> DEFINE q == t \div Span
           r == t % Span
<1>1. q \in Int /\ r \in 0..(Span - 1)
  OBVIOUS
<1>2. t = Span * q + r
  OBVIOUS
<1>3. R!IdOf(t) = [ms |-> q, seq |-> r]
  BY DEF R!IdOf
<1> HIDE DEF q, r
<1>4. t = q * Span + r
  BY <1>1, <1>2
<1> QED
  BY <1>1, <1>3, <1>4 DEF Ids

\* A reading after the id of a time has that time or a later one.
LEMMA TimeAfter ==
  ASSUME NEW t \in Int, NEW j \in Ids, j.seq >= 0, R!Before(R!IdOf(t), j)
  PROVE  R!Ts(j) >= t
<1> DEFINE i == R!IdOf(t)
<1>1. /\ i.ms \in Int /\ i.seq \in 0..(Span - 1) /\ t = i.ms * Span + i.seq
      /\ j.ms \in Int /\ j.seq \in Nat
      /\ i.ms < j.ms \/ (i.ms = j.ms /\ i.seq < j.seq)
  <2>1. R!IdOf(t) \in Ids
    BY TimeOfId
  <2> QED
    BY <2>1, TimeOfId DEF Ids, R!Before
<1>2. R!Ts(j) = j.ms * Span + R!Lesser(j.seq, Span - 1)
  BY DEF R!Ts
<1> DEFINE l == R!Lesser(j.seq, Span - 1)
<1>3. l \in Nat /\ (i.seq < j.seq => l >= i.seq)
  BY <1>1 DEF R!Lesser
<1> HIDE DEF i, l
<1>4. CASE i.ms < j.ms
  <2> DEFINE y == i.ms * Span
             z == j.ms * Span
  <2>1. y + Span <= z
    BY <1>1, <1>4, Steps
  <2>2. t = y + i.seq /\ R!Ts(j) = z + l
    BY <1>1, <1>2 DEF l
  <2>3. y \in Int /\ z \in Int /\ i.seq \in 0..(Span - 1) /\ l \in Nat
    BY <1>1, <1>3
  <2> HIDE DEF y, z
  <2> QED
    BY <2>1, <2>2, <2>3
<1>5. CASE i.ms = j.ms /\ i.seq < j.seq
  <2> DEFINE z == j.ms * Span
  <2>1. t = z + i.seq /\ R!Ts(j) = z + l /\ l >= i.seq
    BY <1>1, <1>2, <1>3, <1>5 DEF l
  <2>2. z \in Int /\ i.seq \in Int /\ l \in Int
    BY <1>1, <1>3
  <2> HIDE DEF z
  <2> QED
    BY <2>1, <2>2
<1> QED
  BY <1>1, <1>4, <1>5

\* A reading of a later time is after the id.
LEMMA LaterIsAfter ==
  ASSUME NEW t \in Int, NEW j \in Ids, R!Ts(j) > t
  PROVE  R!Before(R!IdOf(t), j)
<1> DEFINE i == R!IdOf(t)
           l == R!Lesser(j.seq, Span - 1)
<1>1. /\ i.ms \in Int /\ i.seq \in 0..(Span - 1) /\ t = i.ms * Span + i.seq
      /\ j.ms \in Int /\ j.seq \in Int
  BY TimeOfId DEF Ids
<1>2. j.ms * Span + l > t
  BY DEF R!Ts
<1>3. l \in Int /\ l <= Span - 1 /\ l <= j.seq
  BY <1>1 DEF R!Lesser
<1> HIDE DEF i, l
<1>4. ASSUME j.ms < i.ms
      PROVE  FALSE
  <2>1. j.ms * Span + Span <= i.ms * Span
    BY <1>1, <1>4, Steps
  <2>2. j.ms * Span \in Int /\ i.ms * Span \in Int
    BY <1>1
  <2> QED
    BY <1>1, <1>2, <1>3, <2>1, <2>2
<1>5. ASSUME j.ms = i.ms, j.seq <= i.seq
      PROVE  FALSE
  <2>1. i.ms * Span \in Int
    BY <1>1
  <2> QED
    BY <1>1, <1>2, <1>3, <1>5, <2>1
<1> QED
  BY <1>1, <1>4, <1>5 DEF i, R!Before

\* A set of numbers that is not empty has a least one.
LEMMA LeastOf ==
  ASSUME NEW S, S \subseteq Nat, S # {}
  PROVE  \E a \in S : \A b \in S : a <= b
<1>1. PICK a \in S : \A b \in S : <<b, a>> \notin OpToRel(<, Nat)
  BY WFMin, NatLessThanWellFounded
<1>2. ASSUME NEW b \in S
      PROVE  a <= b
  <2>1. b < a => <<b, a>> \in OpToRel(<, Nat)
    BY DEF OpToRel
  <2>2. ~(b < a)
    BY <1>1, <2>1
  <2> QED
    BY <2>2
<1> QED
  BY <1>2

-----------------------------------------------------------------------------
(* The history. *)

\* Redis' clock and the ids it chose.  The ids of a history increase, whatever
\* the clock does; the sequence number of one is at most the number of the
\* readings before it, so that ids can be counted.
LogInv ==
  /\ clock \in 1..MaxMs
  /\ r_log \in Seq(Ids) /\ Len(r_log) <= MaxReadings
  /\ \A p \in 1..Len(r_log) : r_log[p].ms \in 0..MaxMs /\ r_log[p].seq \in 0..MaxReadings
  /\ kept \in 1..(Len(r_log) + 1)
  /\ last \in Ids /\ last.ms \in 0..MaxMs /\ last.seq \in 0..Len(r_log)
  /\ r_log # <<>> => last = r_log[Len(r_log)]
  /\ \A p, q \in 1..Len(r_log) : p < q => R!Before(r_log[p], r_log[q])

\* Nothing was added after the last id.
LEMMA LastIsLast ==
  ASSUME LogInv, NEW p \in 1..Len(r_log)
  PROVE  r_log[p] \in Ids /\ ~R!Before(last, r_log[p])
<1>1. r_log # <<>> /\ Len(r_log) \in Nat /\ r_log[p] \in Ids
  BY DEF LogInv
<1>2. p = Len(r_log) \/ R!Before(r_log[p], r_log[Len(r_log)])
  BY <1>1 DEF LogInv
<1>3. last = r_log[Len(r_log)] /\ last \in Ids
  BY <1>1 DEF LogInv
<1> QED
  BY <1>1, <1>2, <1>3 DEF R!Before, Ids

\* Redis' next id is after all of them, and its sequence number is bounded.
LEMMA NextIdFollows ==
  ASSUME LogInv
  PROVE  /\ R!NextId \in Ids /\ R!Before(last, R!NextId)
         /\ R!NextId.ms \in 0..MaxMs /\ R!NextId.seq \in 0..(Len(r_log) + 1)
         /\ \A p \in 1..Len(r_log) : R!Before(r_log[p], R!NextId)
<1>1. clock \in Int /\ 0 <= clock /\ clock <= MaxMs /\ Len(r_log) \in Nat
  BY DEF LogInv
<1>2. last.ms \in Int /\ last.seq \in Int /\ last.ms \in 0..MaxMs /\ last.seq \in 0..Len(r_log)
  BY DEF LogInv, Ids
<1>3. /\ R!NextId \in Ids /\ R!Before(last, R!NextId)
      /\ R!NextId.ms \in 0..MaxMs /\ R!NextId.seq \in 0..(Len(r_log) + 1)
  BY <1>1, <1>2 DEF R!NextId, R!Before, Ids
<1>4. ASSUME NEW p \in 1..Len(r_log)
      PROVE  R!Before(r_log[p], R!NextId)
  <2>1. r_log[p] \in Ids /\ ~R!Before(last, r_log[p])
    BY LastIsLast
  <2> QED
    BY <1>2, <1>3, <2>1 DEF R!Before, Ids
<1> QED
  BY <1>3, <1>4

\* A report adds one reading at the end, and trimming keeps what was kept.
LEMMA ReportAdds ==
  ASSUME LogInv, NEW d, R!ReportValue(d)
  PROVE  /\ Len(r_log') = Len(r_log) + 1 /\ Len(r_log) \in Nat
         /\ r_log'[Len(r_log) + 1] = R!NextId
         /\ \A p \in 1..Len(r_log) : r_log'[p] = r_log[p]
         /\ kept' \in kept..(Len(r_log) + 2) /\ last' = R!NextId
         /\ r_log' \in Seq(Ids)
<1>1. r_log \in Seq(Ids) /\ R!NextId \in Ids
  BY NextIdFollows DEF LogInv
<1>2. r_log' = Append(r_log, R!NextId) /\ last' = R!NextId /\ kept' \in R!Trimmed(Len(r_log) + 1)
  BY DEF R!ReportValue
<1>3. kept' \in kept..((Len(r_log) + 1) + 1)
  BY <1>2 DEF R!Trimmed
<1> QED
  BY <1>1, <1>2, <1>3

\* Every step keeps the history in order.
LEMMA LogInvInductive == LogInv /\ [R!Next]_(R!vars) => LogInv'
<1> SUFFICES ASSUME LogInv, [R!Next]_(R!vars)
             PROVE  LogInv'
  OBVIOUS
<1>1. CASE clock' \in 1..MaxMs /\ UNCHANGED <<r_log, kept, last>>
  BY <1>1 DEF LogInv
<1>2. ASSUME R!InitDevice, UNCHANGED clock
      PROVE  LogInv'
  BY <1>2 DEF LogInv, R!InitDevice, Ids
<1>3. ASSUME NEW d, R!ReportValue(d)
      PROVE  LogInv'
  <2>1. /\ Len(r_log') = Len(r_log) + 1 /\ Len(r_log) \in Nat
        /\ r_log'[Len(r_log) + 1] = R!NextId
        /\ \A p \in 1..Len(r_log) : r_log'[p] = r_log[p]
        /\ kept' \in kept..(Len(r_log) + 2) /\ last' = R!NextId
        /\ r_log' \in Seq(Ids)
    BY <1>3, ReportAdds
  <2>2. Len(r_log) < MaxReadings /\ clock' = clock
    BY <1>3 DEF R!ReportValue
  <2>3. /\ R!NextId \in Ids
        /\ R!NextId.ms \in 0..MaxMs /\ R!NextId.seq \in 0..(Len(r_log) + 1)
        /\ \A p \in 1..Len(r_log) : R!Before(r_log[p], R!NextId)
    BY NextIdFollows
  <2>4. kept' \in 1..(Len(r_log') + 1)
    BY <2>1 DEF LogInv
  <2>5. \A p \in 1..Len(r_log') : r_log'[p].ms \in 0..MaxMs /\ r_log'[p].seq \in 0..MaxReadings
    <3> SUFFICES ASSUME NEW p \in 1..Len(r_log')
                 PROVE  r_log'[p].ms \in 0..MaxMs /\ r_log'[p].seq \in 0..MaxReadings
      OBVIOUS
    <3>1. CASE p \in 1..Len(r_log)
      BY <2>1, <3>1 DEF LogInv
    <3>2. CASE p = Len(r_log) + 1
      <4>1. R!NextId.seq \in 0..MaxReadings
        BY <2>1, <2>2, <2>3
      <4> QED
        BY <2>1, <2>3, <3>2, <4>1
    <3> QED
      BY <2>1, <3>1, <3>2
  <2>6. \A p, q \in 1..Len(r_log') : p < q => R!Before(r_log'[p], r_log'[q])
    <3> SUFFICES ASSUME NEW p \in 1..Len(r_log'), NEW q \in 1..Len(r_log'), p < q
                 PROVE  R!Before(r_log'[p], r_log'[q])
      OBVIOUS
    <3>1. p \in 1..Len(r_log) /\ r_log'[p] = r_log[p]
      BY <2>1
    <3>2. CASE q \in 1..Len(r_log)
      BY <2>1, <3>1, <3>2 DEF LogInv
    <3>3. CASE q = Len(r_log) + 1
      BY <2>1, <2>3, <3>1, <3>3
    <3> QED
      BY <2>1, <3>2, <3>3
  <2> QED
    BY <2>1, <2>2, <2>3, <2>4, <2>5, <2>6 DEF LogInv
<1>4. ASSUME NEW t \in 1..MaxMs, R!SetClock(t)
      PROVE  LogInv'
  BY <1>1, <1>4 DEF R!SetClock, R!dev
<1> QED
  <2>1. clock \in 1..MaxMs
    BY DEF LogInv
  <2>2. ASSUME NEW d, R!Register(d)
        PROVE  LogInv'
    BY <1>1, <1>2, <2>1, <2>2 DEF R!Register
  <2>3. ASSUME NEW m \in Monitors,
               \/ \E r \in Requests : R!MonitorDevice(m, r)
               \/ R!PollSends(m) \/ R!PollRetries(m) \/ R!PollYields(m)
               \/ R!TimesOut(m) \/ R!Fails(m)
        PROVE  LogInv'
    <3>1. UNCHANGED <<clock, r_log, kept, last>>
      BY <2>3 DEF R!MonitorDevice, R!PollSends, R!PollRetries, R!PollYields, R!TimesOut,
             R!Fails, R!dev
    <3> QED
      BY <1>1, <2>1, <3>1
  <2>4. CASE R!Restart
    BY <1>1, <2>1, <2>4 DEF R!Restart
  <2>5. CASE UNCHANGED R!vars
    BY <1>1, <2>1, <2>5 DEF R!vars, R!dev
  <2> QED
    BY <1>3, <1>4, <2>2, <2>3, <2>4, <2>5 DEF R!Next

-----------------------------------------------------------------------------
(* The cursors.  A monitor is given readings in order because what it was    *)
(* given is not after the id its next command reads from, and what redis     *)
(* answers is after it.                                                      *)

Stream == [phase : {"closed", "ended"} \cup Active, id : Ids \cup {None}, end : Nat,
           at : Nat, rid : Ids \cup {None}]

MonTypes == mon \in [Monitors -> Stream] /\ r_got \in [Monitors -> Seq(Nat)]

Cursor(m) ==
  /\ \A p \in R!Given(m) : p \in 1..Len(r_log)
  /\ R!Given(m) # {} => /\ mon[m].phase # "closed"
                        /\ mon[m].phase \in Active => mon[m].id # None
  /\ mon[m].id # None => \A p \in R!Given(m) : ~R!Before(mon[m].id, r_log[p])
  /\ mon[m].phase = "answered" => mon[m].rid # None /\ (mon[m].at = 0 => R!Given(m) = {})
  /\ mon[m].phase = "blocked" => /\ mon[m].rid # None
                                 /\ mon[m].id # None => mon[m].rid = mon[m].id
  /\ mon[m].at # 0 => /\ mon[m].phase = "answered"
                      /\ mon[m].at \in 1..Len(r_log) /\ mon[m].rid = r_log[mon[m].at]
                      /\ \A p \in R!Given(m) : p < mon[m].at

MonInv == MonTypes /\ \A m \in Monitors : Cursor(m)

\* Giving a monitor one more reading.
LEMMA OneMore ==
  ASSUME MonTypes, NEW m \in Monitors, NEW p \in Nat,
         r_got' = [r_got EXCEPT ![m] = Append(@, p)]
  PROVE  /\ r_got' \in [Monitors -> Seq(Nat)]
         /\ R!Given(m)' = R!Given(m) \cup {p}
         /\ \A k \in Monitors : k # m => R!Given(k)' = R!Given(k)
<1> DEFINE g == r_got[m]
           h == Append(g, p)
<1>1. g \in Seq(Nat) /\ h \in Seq(Nat) /\ r_got'[m] = h
  BY DEF MonTypes
<1>2. /\ Len(g) \in Nat /\ Len(h) = Len(g) + 1 /\ h[Len(g) + 1] = p
      /\ \A i \in 1..Len(g) : h[i] = g[i]
  BY <1>1
<1>3. r_got' \in [Monitors -> Seq(Nat)] /\ \A k \in Monitors : k # m => r_got'[k] = r_got[k]
  BY <1>1 DEF MonTypes
<1> HIDE DEF h, g
<1>4. 1..Len(h) = (1..Len(g)) \cup {Len(g) + 1}
  BY <1>2
<1>5. {h[i] : i \in 1..Len(h)} = {g[i] : i \in 1..Len(g)} \cup {p}
  BY <1>2, <1>4
<1> QED
  BY <1>1, <1>3, <1>5 DEF R!Given, g

\* A command that is sent waits, if nothing that is kept is after the id it
\* reads from, or is answered with the oldest reading that is.
LEMMA SendReads ==
  ASSUME LogInv, MonInv, NEW m \in Monitors, R!Send(m, mon[m].id)
  PROVE  LET after == IF mon[m].id = None THEN last ELSE mon[m].id IN
         /\ after \in Ids
         /\ \/ /\ \A p \in kept..Len(r_log) : ~R!Before(after, r_log[p])
               /\ mon' = [mon EXCEPT ![m] = [@ EXCEPT !.phase = "blocked", !.rid = after]]
            \/ \E p \in kept..Len(r_log) :
                 /\ R!Before(after, r_log[p])
                 /\ \A q \in kept..(p - 1) : ~R!Before(after, r_log[q])
                 /\ mon' = [mon EXCEPT ![m] =
                              [@ EXCEPT !.phase = "answered", !.at = p, !.rid = r_log[p]]]
<1> DEFINE after == IF mon[m].id = None THEN last ELSE mon[m].id
           Found == R!ReadFrom(after)
           S == {p \in kept..Len(r_log) : R!Before(after, r_log[p])}
<1>1. after \in Ids
  BY DEF LogInv, MonInv, MonTypes, Stream
<1>2. /\ Found = {} => mon' = [mon EXCEPT ![m] = [@ EXCEPT !.phase = "blocked", !.rid = after]]
      /\ Found # {} => LET p == CHOOSE q \in Found : TRUE IN
           mon' = [mon EXCEPT ![m] = [@ EXCEPT !.phase = "answered", !.at = p, !.rid = r_log[p]]]
  BY DEF R!Send
<1>3. kept \in Nat /\ Len(r_log) \in Nat
  BY DEF LogInv
<1>4. Found = {p \in kept..Len(r_log) : /\ R!Before(after, r_log[p])
                                        /\ \A q \in kept..(p - 1) : ~R!Before(after, r_log[q])}
  BY DEF R!ReadFrom
<1> HIDE DEF after, Found
<1>5. CASE Found = {}
  <2>1. ASSUME S # {}
        PROVE  FALSE
    <3>1. S \subseteq Nat
      BY <1>3
    <3>2. PICK a \in S : \A b \in S : a <= b
      <4> HIDE DEF S
      <4> QED
        BY <2>1, <3>1, LeastOf
    <3>3. \A q \in kept..(a - 1) : q \in kept..Len(r_log) /\ ~(a <= q)
      BY <1>3, <3>2
    <3>4. \A q \in kept..(a - 1) : ~R!Before(after, r_log[q])
      BY <3>2, <3>3
    <3> QED
      BY <1>4, <1>5, <3>2, <3>4
  <2> QED
    BY <1>1, <1>2, <1>5, <2>1 DEF after
<1>6. CASE Found # {}
  <2> DEFINE p == CHOOSE q \in Found : TRUE
  <2>1. p \in Found
    BY <1>6
  <2>2. mon' = [mon EXCEPT ![m] = [@ EXCEPT !.phase = "answered", !.at = p, !.rid = r_log[p]]]
    BY <1>2, <1>6
  <2> HIDE DEF p
  <2> QED
    BY <1>1, <1>4, <2>1, <2>2 DEF after
<1> QED
  BY <1>5, <1>6

\* Times are numbers.
LEMMA TsInt == \A j \in Ids : R!Ts(j) \in Int
BY DEF R!Ts, R!Lesser, Ids

\* A stream that is closed or has ended reads from no id.
LEMMA ClosedAndEnded ==
  /\ R!Closed \in Stream /\ R!Ended \in Stream
  /\ R!Closed.phase = "closed" /\ R!Ended.phase = "ended"
  /\ R!Closed.id = None /\ R!Ended.id = None /\ R!Closed.at = 0 /\ R!Ended.at = 0
  /\ R!Closed.end = 0 /\ R!Ended.end = 0
BY DEF R!Closed, R!Ended, Stream, Active, R!Unset

\* A step of a monitor changes some fields of its stream.
LEMMA Updated ==
  ASSUME NEW s \in Stream, NEW ph \in Active, NEW i \in Ids \cup {None}, NEW n \in Nat,
         NEW j \in Ids \cup {None}
  PROVE  /\ [s EXCEPT !.at = n] \in Stream
         /\ [s EXCEPT !.phase = ph, !.rid = j] \in Stream
         /\ [s EXCEPT !.phase = ph, !.at = n, !.rid = j] \in Stream
         /\ [s EXCEPT !.phase = ph, !.id = i, !.at = n, !.rid = j] \in Stream
BY DEF Stream

\* A stream is opened at no id, or at an id.
LEMMA Opened ==
  ASSUME LogInv, NEW r \in Requests, NEW i \in R!FirstIds(r)
  PROVE  /\ i \in Ids \cup {None}
         /\ (IF r.end = 0 THEN 0 ELSE R!Greater(r.start, r.end)) \in Nat
<1>1. r.start \in Nat /\ r.end \in Nat
  OBVIOUS
<1>2. CASE r.start # 0
  <2>1. R!Earliest(r) - 1 \in Int
    BY <1>1 DEF R!Earliest, R!Lesser
  <2> QED
    BY <1>1, <1>2, <2>1, TimeOfId DEF R!FirstIds, R!Unset, R!Greater
<1>3. CASE r.start = 0
  <2>1. ASSUME kept <= Len(r_log)
        PROVE  R!Ts(r_log[Len(r_log)]) - 1 \in Int
    <3>1. r_log[Len(r_log)] \in Ids
      BY <2>1 DEF LogInv
    <3> QED
      BY <3>1, TsInt
  <2> QED
    BY <1>1, <1>3, <2>1, TimeOfId DEF R!FirstIds, R!Unset, R!Greater
<1> QED
  BY <1>2, <1>3

\* A monitor's own steps keep its type and leave the others alone.
LEMMA MonTypesStep == LogInv /\ MonInv /\ [R!Next]_(R!vars) => MonTypes'
<1> SUFFICES ASSUME LogInv, MonInv, [R!Next]_(R!vars)
             PROVE  MonTypes'
  OBVIOUS
<1>0. MonTypes
  BY DEF MonInv
<1>1. ASSUME R!InitDevice
      PROVE  MonTypes'
  <2>1. /\ mon' = [m \in Monitors |-> [mon[m] EXCEPT !.at = 0]]
        /\ r_got' = [m \in Monitors |-> <<>>]
    BY <1>1 DEF R!InitDevice
  <2>2. \A s \in Stream : [s EXCEPT !.at = 0] \in Stream
    BY DEF Stream
  <2> QED
    BY <1>0, <2>1, <2>2 DEF MonTypes
<1>2. ASSUME NEW d, R!ReportValue(d)
      PROVE  MonTypes'
  <2>1. /\ mon' = [k \in Monitors |-> R!Wake(mon[k], Len(r_log) + 1, R!NextId)]
        /\ r_got' = r_got
    BY <1>2 DEF R!ReportValue
  <2>2. Len(r_log) + 1 \in Nat /\ R!NextId \in Ids
    BY NextIdFollows DEF LogInv
  <2>3. ASSUME NEW k \in Monitors
        PROVE  R!Wake(mon[k], Len(r_log) + 1, R!NextId) \in Stream
    <3>1. mon[k] \in Stream
      BY <1>0 DEF MonTypes
    <3> QED
      BY <2>2, <3>1 DEF R!Wake, Stream, Active
  <2> QED
    BY <1>0, <2>1, <2>3 DEF MonTypes
<1>3. ASSUME NEW m \in Monitors, NEW r \in Requests, R!MonitorDevice(m, r)
      PROVE  MonTypes'
  <2>1. CASE mon' = [mon EXCEPT ![m] = R!Ended]
    BY <1>0, <1>3, <2>1, ClosedAndEnded DEF R!MonitorDevice, MonTypes
  <2>2. ASSUME NEW i \in R!FirstIds(r),
               mon' = [mon EXCEPT ![m] = [phase |-> "unsent", id |-> i, at |-> 0, rid |-> None,
                         end |-> IF r.end = R!Unset THEN R!Unset ELSE R!Greater(r.start, r.end)]]
        PROVE  MonTypes'
    <3> DEFINE e == IF r.end = 0 THEN 0 ELSE R!Greater(r.start, r.end)
    <3>1. i \in Ids \cup {None} /\ e \in Nat
      BY Opened
    <3>2. mon' = [mon EXCEPT ![m] = [phase |-> "unsent", id |-> i, at |-> 0, rid |-> None,
                                     end |-> e]]
      BY <2>2 DEF R!Unset
    <3>3. r_got' = r_got
      BY <1>3 DEF R!MonitorDevice
    <3> HIDE DEF e
    <3> QED
      BY <1>0, <3>1, <3>2, <3>3 DEF MonTypes, Stream, Active
  <2> QED
    BY <1>3, <2>1, <2>2 DEF R!MonitorDevice
<1>4. ASSUME NEW m \in Monitors, R!PollSends(m) \/ R!PollRetries(m)
      PROVE  MonTypes'
  <2> DEFINE after == IF mon[m].id = None THEN last ELSE mon[m].id
  <2>1. r_got' = r_got /\ R!Send(m, mon[m].id)
    BY <1>4 DEF R!PollSends, R!PollRetries
  <2>2. /\ after \in Ids
        /\ \/ mon' = [mon EXCEPT ![m] = [@ EXCEPT !.phase = "blocked", !.rid = after]]
           \/ \E p \in kept..Len(r_log) :
                mon' = [mon EXCEPT ![m] =
                          [@ EXCEPT !.phase = "answered", !.at = p, !.rid = r_log[p]]]
    BY <2>1, SendReads
  <2>3. \A p \in kept..Len(r_log) : p \in Nat /\ r_log[p] \in Ids
    BY DEF LogInv
  <2> HIDE DEF after
  <2>4. /\ mon[m] \in Stream
        /\ \A i \in Ids, p \in Nat : /\ [mon[m] EXCEPT !.phase = "blocked", !.rid = i] \in Stream
                                    /\ [mon[m] EXCEPT !.phase = "answered", !.at = p, !.rid = i]
                                         \in Stream
    <3>1. mon[m] \in Stream /\ "blocked" \in Active /\ "answered" \in Active
      BY <1>0 DEF MonTypes, Active
    <3> QED
      BY <3>1, Updated
  <2>5. \E s \in Stream : mon' = [mon EXCEPT ![m] = s]
    BY <2>2, <2>3, <2>4
  <2> QED
    BY <1>0, <2>1, <2>5 DEF MonTypes
<1>5. ASSUME NEW m \in Monitors, R!PollYields(m)
      PROVE  MonTypes'
  <2>1. r_got' \in [Monitors -> Seq(Nat)]
    <3>1. r_got' = r_got \/ r_got' = [r_got EXCEPT ![m] = Append(@, mon[m].at)]
      BY <1>5 DEF R!PollYields
    <3>2. mon[m].at \in Nat
      BY <1>0 DEF MonTypes, Stream
    <3> QED
      BY <1>0, <3>1, <3>2, OneMore DEF MonTypes
  <2>2. \/ mon' = [mon EXCEPT ![m] = R!Ended]
        \/ mon' = [mon EXCEPT ![m].phase = "unsent", ![m].id = mon[m].rid,
                              ![m].at = 0, ![m].rid = None]
    BY <1>5 DEF R!PollYields
  <2>3. \E s \in Stream : mon' = [mon EXCEPT ![m] = s]
    <3>1. mon[m] \in Stream
      BY <1>0 DEF MonTypes
    <3> DEFINE s == [mon[m] EXCEPT !.phase = "unsent", !.id = mon[m].rid, !.at = 0,
                                   !.rid = None]
    <3>2. s \in Stream
      <4>1. mon[m].rid \in Ids \cup {None} /\ "unsent" \in Active
        BY <3>1 DEF Stream, Active
      <4> QED
        BY <3>1, <4>1, Updated
    <3>3. ASSUME mon' = [mon EXCEPT ![m].phase = "unsent", ![m].id = mon[m].rid,
                                    ![m].at = 0, ![m].rid = None]
          PROVE  mon' = [mon EXCEPT ![m] = s]
      BY <1>0, <3>3 DEF MonTypes
    <3> QED
      BY <2>2, <3>2, <3>3, ClosedAndEnded
  <2> QED
    BY <1>0, <2>1, <2>3 DEF MonTypes
<1>6. ASSUME NEW m \in Monitors, R!TimesOut(m)
      PROVE  MonTypes'
  <2>1. mon' = [mon EXCEPT ![m].phase = "nil", ![m].rid = None] /\ r_got' = r_got
    BY <1>6 DEF R!TimesOut
  <2>2. mon' = [mon EXCEPT ![m] = [mon[m] EXCEPT !.phase = "nil", !.rid = None]]
    BY <1>0, <2>1 DEF MonTypes
  <2>3. [mon[m] EXCEPT !.phase = "nil", !.rid = None] \in Stream
    <3>1. mon[m] \in Stream /\ "nil" \in Active
      BY <1>0 DEF MonTypes, Active
    <3> QED
      BY <3>1, Updated
  <2> QED
    BY <1>0, <2>1, <2>2, <2>3 DEF MonTypes
<1>7. ASSUME NEW m \in Monitors, R!Fails(m)
      PROVE  MonTypes'
  BY <1>0, <1>7, ClosedAndEnded DEF R!Fails, MonTypes
<1>8. CASE R!Restart
  BY <1>0, <1>8, ClosedAndEnded DEF R!Restart, MonTypes
<1>9. CASE UNCHANGED <<mon, r_got>>
  BY <1>0, <1>9 DEF MonTypes
<1> QED
  <2>1. ASSUME NEW d, R!Register(d)
        PROVE  MonTypes'
    BY <1>1, <1>9, <2>1 DEF R!Register
  <2> QED
    BY <1>2, <1>3, <1>4, <1>5, <1>6, <1>7, <1>8, <1>9, <2>1
       DEF R!Next, R!SetClock, R!vars

-----------------------------------------------------------------------------
(* The ranges.  A monitor that asked for a start time reads from an id on;   *)
(* what it was not given and is in its range is after the id it reads from.  *)

\* The id before the first reading of a stream's range.
First(m) == R!IdOf(from[m] - 1)

\* The id a stream reads from is that first one, or one that the history has
\* reached; the readings kept in its range that are not after it were given.
Unread(m) ==
  /\ mon[m].id # None /\ ~R!Before(mon[m].id, First(m))
  /\ mon[m].id = First(m) \/ ~R!Before(last, mon[m].id)
  /\ \A p \in kept..Len(r_log) :
       ~R!Before(mon[m].id, r_log[p]) /\ R!Before(First(m), r_log[p]) => p \in R!Given(m)
  /\ mon[m].phase = "blocked" => \A p \in kept..Len(r_log) : ~R!Before(mon[m].id, r_log[p])
  /\ mon[m].phase = "answered" =>
       /\ mon[m].at # 0 /\ R!Before(mon[m].id, mon[m].rid)
       /\ \A p \in kept..(mon[m].at - 1) : ~R!Before(mon[m].id, r_log[p])

Told(m) ==
  /\ mon[m].phase = "closed" => from[m] = None
  /\ mon[m].end # 0 => \A p \in R!Given(m) : R!Ts(r_log[p]) <= mon[m].end
  /\ from[m] # None => \A p \in R!Given(m) : R!Before(First(m), r_log[p])
  /\ from[m] # None /\ mon[m].phase \in Active => Unread(m)

RedisInv ==
  /\ LogInv
  /\ MonInv
  /\ from \in [Monitors -> Int \cup {None}]
  /\ \A m \in Monitors : Told(m)

\* What a step may leave of a monitor.
Untouched(m) ==
  /\ R!Given(m)' = R!Given(m) /\ from'[m] = from[m]
  /\ r_log' = r_log /\ kept' = kept /\ last' = last

\* A step that leaves a monitor alone keeps its cursor and its range.
LEMMA SameStream ==
  ASSUME NEW m \in Monitors, Cursor(m), Told(m), Untouched(m), mon'[m] = mon[m]
  PROVE  Cursor(m)' /\ Told(m)'
<1>1. Cursor(m)'
  BY DEF Cursor, Untouched
<1>2. First(m)' = First(m)
  BY DEF First, Untouched
<1>3. Unread(m)' <=> Unread(m)
  BY <1>2 DEF Unread, Untouched
<1>4. Told(m)'
  BY <1>2, <1>3 DEF Told, Untouched
<1> QED
  BY <1>1, <1>4

\* A stream that ends keeps what it was given.
LEMMA EndedStream ==
  ASSUME NEW m \in Monitors, Cursor(m), Told(m), Untouched(m), mon'[m] = R!Ended
  PROVE  Cursor(m)' /\ Told(m)'
<1>1. /\ mon'[m].phase = "ended" /\ mon'[m].id = None /\ mon'[m].at = 0 /\ mon'[m].end = 0
      /\ mon'[m].phase \notin Active
  BY ClosedAndEnded DEF Active
<1>2. Cursor(m)'
  BY <1>1 DEF Cursor, Untouched
<1>3. First(m)' = First(m)
  BY DEF First, Untouched
<1>4. Told(m)'
  BY <1>1, <1>3 DEF Told, Untouched
<1> QED
  BY <1>2, <1>4

\* A device that is initialized again has no history to be behind of.
LEMMA NewHistory ==
  ASSUME RedisInv, R!InitDevice, NEW m \in Monitors
  PROVE  Cursor(m)' /\ Told(m)'
<1>1. /\ R!Given(m)' = {} /\ from'[m] = None
      /\ mon'[m] = [mon[m] EXCEPT !.at = 0]
  BY DEF R!InitDevice, R!Given
<1>2. mon[m] \in Stream /\ Cursor(m)
  BY DEF RedisInv, MonInv, MonTypes
<1>3. /\ mon'[m].phase = mon[m].phase /\ mon'[m].id = mon[m].id
      /\ mon'[m].rid = mon[m].rid /\ mon'[m].at = 0
  BY <1>1, <1>2 DEF Stream
<1>4. Cursor(m)'
  BY <1>1, <1>2, <1>3 DEF Cursor
<1>5. Told(m)'
  BY <1>1 DEF Told
<1> QED
  BY <1>4, <1>5

\* The order of ids.
LEMMA IdOrder ==
  /\ \A i, j, k \in Ids : R!Before(i, j) /\ R!Before(j, k) => R!Before(i, k)
  /\ \A i, j, k \in Ids : ~R!Before(j, i) /\ R!Before(j, k) => R!Before(i, k)
  /\ \A i, j, k \in Ids : R!Before(i, j) /\ ~R!Before(k, j) => R!Before(i, k)
  /\ \A i, j \in Ids : R!Before(i, j) => ~R!Before(j, i)
  /\ \A i \in Ids : ~R!Before(i, i)
BY DEF R!Before, Ids

\* A report reaches the streams that wait for one; for the others it stays to
\* be read.
LEMMA ReportedTo ==
  ASSUME RedisInv, NEW d, R!ReportValue(d), NEW m \in Monitors
  PROVE  Cursor(m)' /\ Told(m)'
<1> DEFINE n == Len(r_log) + 1
           N == R!NextId
<1>1. /\ Len(r_log') = n /\ n \in Nat /\ Len(r_log) = n - 1 /\ r_log'[n] = N
      /\ \A p \in 1..(n - 1) : r_log'[p] = r_log[p]
      /\ kept \in Nat \ {0} /\ kept' \in Nat \ {0} /\ kept <= kept' /\ last' = N
  BY ReportAdds DEF RedisInv, LogInv
<1>2. /\ N \in Ids /\ R!Before(last, N) /\ last \in Ids
      /\ \A p \in 1..(n - 1) : R!Before(r_log[p], N) /\ r_log[p] \in Ids
  BY <1>1, NextIdFollows DEF RedisInv, LogInv
<1>3. /\ mon'[m] = R!Wake(mon[m], n, N) /\ r_got' = r_got /\ from' = from
  BY DEF R!ReportValue
<1>4. R!Given(m)' = R!Given(m) /\ First(m)' = First(m) /\ from'[m] = from[m]
  BY <1>3 DEF R!Given, First
<1>5. Cursor(m) /\ Told(m) /\ mon[m] \in Stream
  BY DEF RedisInv, MonInv, MonTypes
<1> HIDE DEF n, N
<1>6. \A p \in R!Given(m) : p \in 1..(n - 1) /\ r_log'[p] = r_log[p] /\ p < n
  BY <1>1, <1>5 DEF Cursor
<1>7. ASSUME NEW p \in kept'..n, p # n
      PROVE  p \in kept..Len(r_log) /\ r_log'[p] = r_log[p]
  BY <1>1, <1>7
<1>8. mon[m].id # None => mon[m].id \in Ids
  BY <1>5 DEF Stream
<1>9. ASSUME mon[m].id # None, mon[m].id = First(m) \/ ~R!Before(last, mon[m].id)
      PROVE  /\ mon[m].id = First(m) \/ ~R!Before(N, mon[m].id)
             /\ R!Before(First(m), N) => R!Before(mon[m].id, N)
  BY <1>2, <1>8, <1>9, IdOrder
<1>10. CASE mon[m].phase = "blocked" /\ R!Before(mon[m].rid, N)
  <2>1. /\ mon'[m].phase = "answered" /\ mon'[m].at = n /\ mon'[m].rid = N
        /\ mon'[m].id = mon[m].id /\ mon'[m].end = mon[m].end
    BY <1>3, <1>5, <1>10 DEF R!Wake, Stream
  <2>2. N # None /\ n \in 1..n /\ n # 0
    BY <1>1, <1>2 DEF Ids
  <2>3. Cursor(m)'
    BY <1>1, <1>4, <1>5, <1>6, <1>10, <2>1, <2>2 DEF Cursor, Active
  <2>4. ASSUME from[m] # None
        PROVE  Unread(m)'
    <3>1. Unread(m) /\ mon[m].rid = mon[m].id
      BY <1>5, <1>10, <2>4 DEF Told, Unread, Cursor, Active
    <3>2. /\ mon[m].id # None /\ ~R!Before(mon[m].id, First(m)) /\ R!Before(mon[m].id, N)
          /\ mon[m].id = First(m) \/ ~R!Before(N, mon[m].id)
          /\ \A p \in kept..Len(r_log) : ~R!Before(mon[m].id, r_log[p])
          /\ \A p \in kept..Len(r_log) : R!Before(First(m), r_log[p]) => p \in R!Given(m)
      BY <1>9, <1>10, <3>1 DEF Unread
    <3>3. \A p \in kept'..n : R!Before(mon[m].id, r_log'[p]) \/
            (R!Before(First(m), r_log'[p]) => p \in R!Given(m))
      BY <1>1, <1>7, <3>2
    <3>4. \A p \in kept'..(n - 1) : ~R!Before(mon[m].id, r_log'[p])
      BY <1>1, <1>7, <3>2
    <3> QED
      BY <1>1, <1>4, <2>1, <2>2, <3>2, <3>3, <3>4 DEF Unread
  <2>5. Told(m)'
    BY <1>4, <1>5, <1>6, <2>1, <2>4 DEF Told
  <2> QED
    BY <2>3, <2>5
<1>11. CASE ~(mon[m].phase = "blocked" /\ R!Before(mon[m].rid, N))
  <2>1. mon'[m] = mon[m]
    BY <1>3, <1>11 DEF R!Wake
  <2>2. mon[m].at # 0 => mon[m].at \in 1..(n - 1)
    BY <1>1, <1>5 DEF Cursor
  <2>3. Cursor(m)'
    BY <1>1, <1>4, <1>5, <1>6, <2>1, <2>2 DEF Cursor
  <2>4. ASSUME from[m] # None, mon[m].phase \in Active
        PROVE  Unread(m)'
    <3>1. Unread(m)
      BY <1>5, <2>4 DEF Told
    <3>2. /\ mon[m].id # None /\ ~R!Before(mon[m].id, First(m))
          /\ mon[m].id = First(m) \/ ~R!Before(N, mon[m].id)
          /\ R!Before(First(m), N) => R!Before(mon[m].id, N)
      BY <1>9, <3>1 DEF Unread
    <3>3. \A p \in kept'..n : ~R!Before(mon[m].id, r_log'[p]) /\
            R!Before(First(m), r_log'[p]) => p \in R!Given(m)
      BY <1>1, <1>7, <3>1, <3>2 DEF Unread
    <3>4. ASSUME mon[m].phase = "blocked"
          PROVE  \A p \in kept'..n : ~R!Before(mon[m].id, r_log'[p])
      <4>1. mon[m].rid = mon[m].id
        BY <1>5, <3>2, <3>4 DEF Cursor
      <4> QED
        BY <1>1, <1>7, <1>11, <3>1, <3>4, <4>1 DEF Unread
    <3>5. ASSUME mon[m].phase = "answered"
          PROVE  \A p \in kept'..(mon[m].at - 1) : ~R!Before(mon[m].id, r_log'[p])
      <4>1. mon[m].at \in 1..(n - 1)
        BY <2>2, <3>1, <3>5 DEF Unread
      <4>2. \A p \in kept'..(mon[m].at - 1) : /\ p \in kept..(mon[m].at - 1)
                                             /\ r_log'[p] = r_log[p]
        BY <1>1, <4>1
      <4> QED
        BY <3>1, <3>5, <4>2 DEF Unread
    <3> QED
      BY <1>1, <1>4, <2>1, <3>1, <3>2, <3>3, <3>4, <3>5 DEF Unread
  <2>5. Told(m)'
    BY <1>4, <1>5, <1>6, <2>1, <2>4 DEF Told
  <2> QED
    BY <2>3, <2>5
<1> QED
  BY <1>10, <1>11

\* A stream starts right before its range.
LEMMA OpenedStream ==
  ASSUME RedisInv, NEW m \in Monitors, NEW r \in Requests, R!MonitorDevice(m, r)
  PROVE  /\ Cursor(m)' /\ Told(m)'
         /\ from'[m] \in Int \cup {None}
<1>1. /\ mon[m].phase = "closed" /\ R!Given(m) = {} /\ from[m] = None
      /\ mon \in [Monitors -> Stream] /\ from \in [Monitors -> Int \cup {None}]
  BY DEF RedisInv, MonInv, MonTypes, Cursor, Told, R!MonitorDevice
<1>2. /\ r_got' = r_got /\ r_log' = r_log /\ kept' = kept /\ last' = last
      /\ R!Given(m)' = R!Given(m)
  BY DEF R!MonitorDevice, R!dev, R!Given
<1>3. CASE mon' = [mon EXCEPT ![m] = R!Ended] /\ UNCHANGED from
  BY <1>1, <1>2, <1>3, EndedStream DEF Untouched, RedisInv, MonInv
<1>4. ASSUME NEW i \in R!FirstIds(r),
             mon' = [mon EXCEPT ![m] = [phase |-> "unsent", id |-> i, at |-> 0, rid |-> None,
                       end |-> IF r.end = R!Unset THEN R!Unset ELSE R!Greater(r.start, r.end)]],
             from' = [from EXCEPT ![m] = IF r.start # R!Unset THEN R!Earliest(r)
                                        ELSE IF i = None THEN None ELSE R!Ts(r_log[Len(r_log)])]
      PROVE  /\ Cursor(m)' /\ Told(m)'
             /\ from'[m] \in Int \cup {None}
  <2>1. mon'[m].phase = "unsent" /\ mon'[m].id = i /\ mon'[m].at = 0
    BY <1>1, <1>4
  <2>2. from'[m] = IF r.start # 0 THEN R!Earliest(r)
                   ELSE IF i = None THEN None ELSE R!Ts(r_log[Len(r_log)])
    BY <1>1, <1>4 DEF R!Unset
  <2>3. ASSUME from'[m] # None
        PROVE  i \in Ids /\ i = R!IdOf(from'[m] - 1) /\ from'[m] \in Int
    <3>1. CASE r.start # 0
      <4>1. i = R!IdOf(R!Earliest(r) - 1) /\ from'[m] = R!Earliest(r)
        BY <1>4, <2>2, <3>1 DEF R!FirstIds, R!Unset
      <4>2. R!Earliest(r) \in Int
        BY DEF R!Earliest, R!Lesser
      <4>3. R!Earliest(r) - 1 \in Int
        BY <4>2
      <4> QED
        BY <4>1, <4>2, <4>3, TimeOfId
    <3>2. CASE r.start = 0
      <4>1. /\ kept <= Len(r_log) /\ i = R!IdOf(R!Ts(r_log[Len(r_log)]) - 1)
            /\ from'[m] = R!Ts(r_log[Len(r_log)])
        BY <1>4, <2>2, <2>3, <3>2 DEF R!FirstIds, R!Unset
      <4>2. r_log[Len(r_log)] \in Ids
        BY <4>1 DEF RedisInv, LogInv
      <4>3. R!Ts(r_log[Len(r_log)]) \in Int
        BY <4>2, TsInt
      <4>4. R!Ts(r_log[Len(r_log)]) - 1 \in Int
        BY <4>3
      <4> QED
        BY <4>1, <4>3, <4>4, TimeOfId
    <3> QED
      BY <3>1, <3>2
  <2>4. Cursor(m)'
    BY <1>1, <1>2, <2>1 DEF Cursor
  <2>5. ASSUME from'[m] # None
        PROVE  Unread(m)'
    <3>1. i \in Ids /\ i # None /\ First(m)' = i /\ ~R!Before(i, i)
      BY <2>3, <2>5, IdOrder DEF First, Ids
    <3> QED
      BY <1>2, <2>1, <3>1 DEF Unread
  <2>6. Told(m)'
    BY <1>1, <1>2, <2>1, <2>5 DEF Told
  <2> QED
    BY <2>3, <2>4, <2>6
<1> QED
  BY <1>3, <1>4 DEF R!MonitorDevice

\* A command that is sent finds the oldest reading that was not given.
LEMMA SentStream ==
  ASSUME RedisInv, NEW m \in Monitors, R!Send(m, mon[m].id), Untouched(m),
         mon[m].phase \in {"unsent", "nil"}
  PROVE  Cursor(m)' /\ Told(m)'
<1> DEFINE after == IF mon[m].id = None THEN last ELSE mon[m].id
<1>1. /\ mon \in [Monitors -> Stream] /\ mon[m] \in Stream /\ Cursor(m) /\ Told(m)
      /\ LogInv /\ MonInv
  BY DEF RedisInv, MonInv, MonTypes
<1>2. /\ after \in Ids
      /\ \/ /\ \A p \in kept..Len(r_log) : ~R!Before(after, r_log[p])
            /\ mon' = [mon EXCEPT ![m] = [@ EXCEPT !.phase = "blocked", !.rid = after]]
         \/ \E p \in kept..Len(r_log) :
              /\ R!Before(after, r_log[p])
              /\ \A q \in kept..(p - 1) : ~R!Before(after, r_log[q])
              /\ mon' = [mon EXCEPT ![m] =
                           [@ EXCEPT !.phase = "answered", !.at = p, !.rid = r_log[p]]]
  BY <1>1, SendReads
<1>3. mon[m].id # None => after = mon[m].id
  OBVIOUS
<1>4. mon[m].at = 0 /\ mon[m].phase \in Active /\ mon[m].phase # "closed"
  BY <1>1 DEF Cursor, Active
<1>5. First(m)' = First(m)
  BY DEF First, Untouched
<1>6. after # None
  BY <1>2 DEF Ids
<1>7. from[m] # None => Unread(m)
  BY <1>1, <1>4 DEF Told
<1> HIDE DEF after
<1>8. CASE /\ \A p \in kept..Len(r_log) : ~R!Before(after, r_log[p])
           /\ mon' = [mon EXCEPT ![m] = [@ EXCEPT !.phase = "blocked", !.rid = after]]
  <2>1. /\ mon'[m].phase = "blocked" /\ mon'[m].rid = after /\ mon'[m].id = mon[m].id
        /\ mon'[m].at = 0 /\ mon'[m].end = mon[m].end
    BY <1>1, <1>4, <1>8 DEF Stream
  <2>2. Cursor(m)'
    BY <1>1, <1>3, <1>4, <1>6, <2>1 DEF Cursor, Untouched
  <2>3. from[m] # None => Unread(m)'
    BY <1>3, <1>5, <1>7, <1>8, <2>1 DEF Unread, Untouched
  <2>4. Told(m)'
    BY <1>1, <1>5, <2>1, <2>3 DEF Told, Untouched
  <2> QED
    BY <2>2, <2>4
<1>9. ASSUME NEW p \in kept..Len(r_log), R!Before(after, r_log[p]),
             \A q \in kept..(p - 1) : ~R!Before(after, r_log[q]),
             mon' = [mon EXCEPT ![m] =
                       [@ EXCEPT !.phase = "answered", !.at = p, !.rid = r_log[p]]]
      PROVE  Cursor(m)' /\ Told(m)'
  <2>1. /\ mon'[m].phase = "answered" /\ mon'[m].rid = r_log[p] /\ mon'[m].id = mon[m].id
        /\ mon'[m].at = p /\ mon'[m].end = mon[m].end
    BY <1>1, <1>9 DEF Stream
  <2>2. p \in 1..Len(r_log) /\ p # 0 /\ r_log[p] \in Ids /\ r_log[p] # None
    <3>1. kept \in 1..(Len(r_log) + 1) /\ r_log \in Seq(Ids)
      BY <1>1 DEF LogInv
    <3>2. p \in 1..Len(r_log) /\ p # 0
      BY <3>1
    <3>3. r_log[p] \in Ids
      BY <3>1, <3>2
    <3> QED
      BY <3>2, <3>3 DEF Ids
  <2>3. ASSUME NEW q \in R!Given(m)
        PROVE  q < p
    <3>1. mon[m].id # None /\ ~R!Before(after, r_log[q]) /\ q \in 1..Len(r_log)
      BY <1>1, <1>3, <1>4 DEF Cursor
    <3>2. r_log[q] \in Ids
      BY <1>1, <3>1 DEF LogInv
    <3>3. p < q => R!Before(r_log[p], r_log[q])
      BY <1>1, <2>2, <3>1 DEF LogInv
    <3>4. ~(p < q) /\ p # q
      BY <1>2, <1>9, <2>2, <3>1, <3>2, <3>3, IdOrder
    <3> QED
      BY <2>2, <3>1, <3>4
  <2>4. Cursor(m)'
    BY <1>1, <1>4, <2>1, <2>2, <2>3 DEF Cursor, Untouched
  <2>5. from[m] # None => Unread(m)'
    BY <1>3, <1>5, <1>7, <1>9, <2>1, <2>2 DEF Unread, Untouched
  <2>6. Told(m)'
    BY <1>1, <1>4, <1>5, <2>1, <2>5 DEF Told, Untouched
  <2> QED
    BY <2>4, <2>6
<1> QED
  BY <1>2, <1>8, <1>9

\* The next command reads from the reading that was yielded.
LEMMA YieldedTo ==
  ASSUME RedisInv, NEW m \in Monitors, R!PollYields(m)
  PROVE  Cursor(m)' /\ Told(m)'
<1> DEFINE a == mon[m].at
           rid == mon[m].rid
<1>1. /\ mon \in [Monitors -> Stream] /\ mon[m] \in Stream /\ Cursor(m) /\ Told(m)
      /\ MonTypes /\ LogInv
  BY DEF RedisInv, MonInv, MonTypes
<1>2. /\ r_log' = r_log /\ kept' = kept /\ last' = last /\ from' = from
      /\ mon[m].phase = "answered" /\ mon[m].phase \in Active /\ mon[m].phase # "closed"
      /\ First(m)' = First(m)
  BY DEF R!PollYields, R!dev, Active, First
<1>3. CASE mon' = [mon EXCEPT ![m] = R!Ended] /\ UNCHANGED r_got
  BY <1>1, <1>2, <1>3, EndedStream DEF Untouched, R!Given
<1>4. ASSUME mon[m].end = 0 \/ R!Ts(rid) <= mon[m].end,
             mon' = [mon EXCEPT ![m].phase = "unsent", ![m].id = rid, ![m].at = 0, ![m].rid = None],
             r_got' = IF a = 0 THEN r_got ELSE [r_got EXCEPT ![m] = Append(@, a)]
      PROVE  Cursor(m)' /\ Told(m)'
  <2>1. /\ mon'[m].phase = "unsent" /\ mon'[m].id = rid /\ mon'[m].at = 0
        /\ mon'[m].end = mon[m].end
    BY <1>1, <1>4 DEF Stream
  <2>2. a \in Nat /\ rid \in Ids
    BY <1>1, <1>2 DEF Stream, Cursor
  <2>3. CASE a = 0
    <3>1. R!Given(m)' = {} /\ from[m] = None
      <4>1. R!Given(m)' = R!Given(m)
        BY <1>4, <2>3 DEF R!Given
      <4>2. R!Given(m) = {}
        BY <1>1, <1>2, <2>3 DEF Cursor
      <4>3. from[m] = None
        BY <1>1, <1>2, <2>3 DEF Told, Unread
      <4> QED
        BY <4>1, <4>2, <4>3
    <3>2. Cursor(m)'
      BY <2>1, <3>1 DEF Cursor
    <3>3. Told(m)'
      BY <1>2, <2>1, <3>1 DEF Told
    <3> QED
      BY <3>2, <3>3
  <2>4. CASE a # 0
    <3>1. R!Given(m)' = R!Given(m) \cup {a}
      BY <1>1, <1>4, <2>2, <2>4, OneMore
    <3>2. /\ a \in 1..Len(r_log) /\ r_log[a] = rid
          /\ \A p \in R!Given(m) : p < a /\ p \in 1..Len(r_log)
      BY <1>1, <2>4 DEF Cursor
    <3>3. rid # None
      BY <2>2 DEF Ids
    <3>4. \A p \in 1..Len(r_log) : /\ r_log[p] \in Ids
                                   /\ p < a => R!Before(r_log[p], rid)
                                   /\ a < p => R!Before(rid, r_log[p])
      BY <1>1, <3>2 DEF LogInv
    <3>5. \A p \in R!Given(m) \cup {a} : ~R!Before(rid, r_log[p])
      BY <2>2, <3>2, <3>4, IdOrder
    <3>6. Cursor(m)'
      BY <1>2, <2>1, <3>1, <3>2, <3>3, <3>5 DEF Cursor
    <3>7. ASSUME from[m] # None
          PROVE  R!Before(First(m), rid) /\ Unread(m)'
      <4>1. Unread(m) /\ First(m) \in Ids /\ mon[m].id \in Ids
        <5>1. from[m] \in Int
          BY <3>7 DEF RedisInv
        <5>2. from[m] - 1 \in Int
          BY <5>1
        <5>3. First(m) \in Ids
          BY <5>2, TimeOfId DEF First
        <5>4. Unread(m)
          BY <1>1, <1>2, <3>7 DEF Told
        <5> QED
          BY <1>1, <5>3, <5>4 DEF Unread, Stream
      <4>2. /\ ~R!Before(mon[m].id, First(m)) /\ R!Before(mon[m].id, rid)
            /\ \A p \in kept..(a - 1) : ~R!Before(mon[m].id, r_log[p])
            /\ \A p \in kept..Len(r_log) :
                 ~R!Before(mon[m].id, r_log[p]) /\ R!Before(First(m), r_log[p])
                   => p \in R!Given(m)
        BY <1>2, <4>1 DEF Unread
      <4>3. R!Before(First(m), rid) /\ ~R!Before(rid, First(m))
        BY <2>2, <4>1, <4>2, IdOrder
      <4>4. ~R!Before(last, rid)
        BY <1>1, <3>2, LastIsLast
      <4>5. ASSUME NEW p \in kept..Len(r_log), ~R!Before(rid, r_log[p]),
                   R!Before(First(m), r_log[p])
            PROVE  p \in R!Given(m) \cup {a}
        <5>1. kept \in Nat \ {0} /\ Len(r_log) \in Nat
          BY <1>1 DEF LogInv
        <5>2. p \in 1..Len(r_log)
          BY <5>1
        <5>3. ~(a < p)
          BY <3>4, <4>5, <5>2
        <5>4. CASE p = a
          BY <5>4
        <5>5. CASE p # a
          <6>1. p \in kept..(a - 1)
            BY <3>2, <5>1, <5>3, <5>5
          <6> QED
            BY <4>2, <4>5, <6>1
        <5> QED
          BY <5>4, <5>5
      <4>6. Unread(m)'
        BY <1>2, <2>1, <3>1, <3>3, <4>3, <4>4, <4>5 DEF Unread
      <4> QED
        BY <4>3, <4>6
    <3>8. Told(m)'
      BY <1>1, <1>2, <1>4, <2>1, <3>1, <3>2, <3>7 DEF Told
    <3> QED
      BY <3>6, <3>8
  <2> QED
    BY <2>3, <2>4
<1> QED
  BY <1>3, <1>4 DEF R!PollYields, R!Unset

\* A read that runs out is sent again from the same id.
LEMMA TimedOutStream ==
  ASSUME RedisInv, NEW m \in Monitors, R!TimesOut(m)
  PROVE  Cursor(m)' /\ Told(m)'
<1>1. /\ mon \in [Monitors -> Stream] /\ mon[m] \in Stream /\ Cursor(m) /\ Told(m)
  BY DEF RedisInv, MonInv, MonTypes
<1>2. /\ mon[m].phase = "blocked" /\ mon[m].phase \in Active /\ Untouched(m)
      /\ First(m)' = First(m)
  BY DEF R!TimesOut, R!dev, Active, First, Untouched, R!Given
<1>3. mon' = [mon EXCEPT ![m].phase = "nil", ![m].rid = None]
  BY DEF R!TimesOut
<1>4. /\ mon'[m].phase = "nil" /\ mon'[m].id = mon[m].id /\ mon'[m].at = 0
      /\ mon'[m].end = mon[m].end
  <2>1. mon[m].at = 0
    BY <1>1, <1>2 DEF Cursor
  <2> QED
    BY <1>1, <1>3, <2>1 DEF Stream
<1>5. Cursor(m)'
  BY <1>1, <1>2, <1>4 DEF Cursor, Untouched
<1>6. from[m] # None => Unread(m)'
  BY <1>1, <1>2, <1>4 DEF Told, Unread, Untouched
<1>7. Told(m)'
  BY <1>1, <1>2, <1>4, <1>6 DEF Told, Untouched
<1> QED
  BY <1>5, <1>7

-----------------------------------------------------------------------------
\* Every step keeps the history, the cursors and the ranges.
LEMMA RedisInvInductive == RedisInv /\ [R!Next]_(R!vars) => RedisInv'
<1> SUFFICES ASSUME RedisInv, [R!Next]_(R!vars)
             PROVE  RedisInv'
  OBVIOUS
<1> DEFINE FromOK == from \in [Monitors -> Int \cup {None}]
           AllOK == \A k \in Monitors : Cursor(k) /\ Told(k)
<1>1. LogInv' /\ MonTypes'
  BY LogInvInductive, MonTypesStep DEF RedisInv
<1>2. FromOK /\ AllOK
  BY DEF RedisInv, MonInv
<1> SUFFICES FromOK' /\ AllOK'
  BY <1>1 DEF RedisInv, MonInv
<1>3. ASSUME NEW d, R!Register(d)
      PROVE  FromOK' /\ AllOK'
  <2>1. CASE R!InitDevice
    <3>1. AllOK'
      BY <2>1, NewHistory
    <3>2. FromOK'
      BY <2>1 DEF R!InitDevice
    <3> QED
      BY <3>1, <3>2
  <2>2. CASE UNCHANGED <<keys, r_log, kept, last, mon, r_got, seen, from>>
    <3>1. \A k \in Monitors : Untouched(k) /\ mon'[k] = mon[k]
      BY <2>2 DEF Untouched, R!Given
    <3> QED
      BY <1>2, <2>2, <3>1, SameStream
  <2> QED
    BY <1>3, <2>1, <2>2 DEF R!Register
<1>4. ASSUME NEW d, R!ReportValue(d)
      PROVE  FromOK' /\ AllOK'
  <2>1. from' = from
    BY <1>4 DEF R!ReportValue
  <2> QED
    BY <1>2, <1>4, <2>1, ReportedTo
<1>5. ASSUME NEW m \in Monitors, NEW r \in Requests, R!MonitorDevice(m, r)
      PROVE  FromOK' /\ AllOK'
  <2>1. /\ \A k \in Monitors : k # m => mon'[k] = mon[k] /\ Untouched(k)
        /\ from' = [from EXCEPT ![m] = from'[m]]
    <3>1. /\ mon \in [Monitors -> Stream] /\ from \in [Monitors -> Int \cup {None}]
      BY DEF RedisInv, MonInv, MonTypes
    <3>2. /\ \E s : mon' = [mon EXCEPT ![m] = s]
          /\ from' = from \/ \E t : from' = [from EXCEPT ![m] = t]
      BY <1>5 DEF R!MonitorDevice
    <3> QED
      BY <1>5, <3>1, <3>2 DEF R!MonitorDevice, R!dev, Untouched, R!Given
  <2>2. Cursor(m)' /\ Told(m)' /\ from'[m] \in Int \cup {None}
    BY <1>5, OpenedStream
  <2>3. AllOK'
    BY <1>2, <2>1, <2>2, SameStream
  <2> QED
    BY <1>2, <2>1, <2>2, <2>3
<1>6. ASSUME NEW m \in Monitors,
             \A k \in Monitors : k # m => mon'[k] = mon[k] /\ Untouched(k),
             from' = from, Cursor(m)' /\ Told(m)'
      PROVE  FromOK' /\ AllOK'
  BY <1>2, <1>6, SameStream
<1>7. ASSUME NEW m \in Monitors, R!PollSends(m) \/ R!PollRetries(m)
      PROVE  FromOK' /\ AllOK'
  <2>1. /\ R!Send(m, mon[m].id) /\ mon[m].phase \in {"unsent", "nil"} /\ from' = from
        /\ \A k \in Monitors : Untouched(k)
    BY <1>7 DEF R!PollSends, R!PollRetries, R!dev, Untouched, R!Given
  <2>2. \A k \in Monitors : k # m => mon'[k] = mon[k]
    BY <2>1 DEF R!Send, RedisInv, MonInv, MonTypes
  <2>3. Cursor(m)' /\ Told(m)'
    BY <2>1, SentStream
  <2> QED
    BY <1>6, <2>1, <2>2, <2>3
<1>8. ASSUME NEW m \in Monitors, R!PollYields(m)
      PROVE  FromOK' /\ AllOK'
  <2>1. \A k \in Monitors : k # m => mon'[k] = mon[k] /\ r_got'[k] = r_got[k]
    BY <1>8 DEF R!PollYields, RedisInv, MonInv, MonTypes
  <2>2. \A k \in Monitors : k # m => Untouched(k)
    BY <1>8, <2>1 DEF R!PollYields, R!dev, Untouched, R!Given
  <2>3. from' = from
    BY <1>8 DEF R!PollYields
  <2> QED
    BY <1>6, <1>8, <2>1, <2>2, <2>3, YieldedTo
<1>9. ASSUME NEW m \in Monitors, R!TimesOut(m)
      PROVE  FromOK' /\ AllOK'
  <2>1. /\ from' = from /\ \A k \in Monitors : Untouched(k)
    BY <1>9 DEF R!TimesOut, R!dev, Untouched, R!Given
  <2>2. \A k \in Monitors : k # m => mon'[k] = mon[k]
    BY <1>9 DEF R!TimesOut, RedisInv, MonInv, MonTypes
  <2> QED
    BY <1>6, <1>9, <2>1, <2>2, TimedOutStream
<1>10. ASSUME NEW m \in Monitors, R!Fails(m)
       PROVE  FromOK' /\ AllOK'
  <2>1. /\ from' = from /\ \A k \in Monitors : Untouched(k)
        /\ mon' = [mon EXCEPT ![m] = R!Ended]
    BY <1>10 DEF R!Fails, R!dev, Untouched, R!Given
  <2>2. mon'[m] = R!Ended /\ \A k \in Monitors : k # m => mon'[k] = mon[k]
    BY <2>1 DEF RedisInv, MonInv, MonTypes
  <2> QED
    BY <1>2, <1>6, <2>1, <2>2, EndedStream
<1>11. CASE R!Restart
  <2>1. /\ from' = from /\ \A k \in Monitors : Untouched(k)
        /\ mon' = [k \in Monitors |-> IF mon[k].phase = "closed" THEN R!Closed ELSE R!Ended]
    BY <1>11 DEF R!Restart, Untouched, R!Given
  <2>2. ASSUME NEW k \in Monitors
        PROVE  Cursor(k)' /\ Told(k)'
    <3>1. CASE mon[k].phase # "closed"
      BY <1>2, <2>1, <3>1, EndedStream
    <3>2. CASE mon[k].phase = "closed"
      <4>1. R!Given(k)' = {} /\ from'[k] = None /\ mon'[k] = R!Closed
        BY <1>2, <2>1, <3>2 DEF Cursor, Told, Untouched
      <4>2. Cursor(k)'
        BY <4>1, ClosedAndEnded DEF Cursor
      <4>3. Told(k)'
        BY <4>1 DEF Told
      <4> QED
        BY <4>2, <4>3
    <3> QED
      BY <3>1, <3>2
  <2> QED
    BY <1>2, <2>1, <2>2
<1>12. CASE UNCHANGED <<mon, r_got, from, r_log, kept, last>>
  <2>1. \A k \in Monitors : Untouched(k) /\ mon'[k] = mon[k]
    BY <1>12 DEF Untouched, R!Given
  <2> QED
    BY <1>2, <1>12, <2>1, SameStream
<1> HIDE DEF FromOK, AllOK
<1>13. UNCHANGED R!vars => UNCHANGED <<mon, r_got, from, r_log, kept, last>>
  BY DEF R!vars, R!dev
<1>14. (\E t \in 1..MaxMs : R!SetClock(t)) => UNCHANGED <<mon, r_got, from, r_log, kept, last>>
  BY DEF R!SetClock, R!dev
<1> QED
  BY <1>3, <1>4, <1>5, <1>7, <1>8, <1>9, <1>10, <1>11, <1>12, <1>13, <1>14 DEF R!Next

\* RedisInv is an invariant of the redis backend.
LEMMA RedisInvariant == R!Spec => []RedisInv
<1>1. R!Init => RedisInv
  <2> SUFFICES ASSUME R!Init
               PROVE  RedisInv
    OBVIOUS
  <2>1. /\ clock = 1 /\ r_log = <<>> /\ kept = 1 /\ last = [ms |-> 0, seq |-> 0]
        /\ mon = [m \in Monitors |-> R!Closed] /\ r_got = [m \in Monitors |-> <<>>]
        /\ from = [m \in Monitors |-> None]
    BY DEF R!Init
  <2>2. LogInv
    BY <2>1 DEF LogInv, Ids
  <2>3. MonTypes
    BY <2>1, ClosedAndEnded DEF MonTypes
  <2>4. \A m \in Monitors : R!Given(m) = {} /\ mon[m] = R!Closed /\ from[m] = None
    BY <2>1 DEF R!Given
  <2>5. \A m \in Monitors : Cursor(m)
    BY <2>4, ClosedAndEnded DEF Cursor
  <2>6. \A m \in Monitors : Told(m)
    BY <2>4 DEF Told
  <2> QED
    BY <2>1, <2>2, <2>3, <2>5, <2>6 DEF RedisInv, MonInv
<1> QED
  BY <1>1, RedisInvInductive, PTL DEF R!Spec

\* Whoever waits for redis has missed no reading of its range that redis still
\* has, and was given none outside of it, but for one a microsecond early.
THEOREM RedisDeliversRanges == R!Spec => []RedisRangeDelivered
<1>1. RedisInv => RedisRangeDelivered
  <2> SUFFICES ASSUME RedisInv, NEW m \in Monitors
               PROVE  /\ mon[m].end # 0 => \A p \in R!Given(m) : R!Ts(r_log[p]) <= mon[m].end
                      /\ from[m] # None => \A p \in R!Given(m) : R!Ts(r_log[p]) + 1 >= from[m]
                      /\ mon[m].phase = "blocked" /\ from[m] # None =>
                           \A p \in kept..Len(r_log) :
                             R!Ts(r_log[p]) >= from[m] => p \in R!Given(m)
    BY DEF RedisRangeDelivered, R!RangeDelivered, R!Unset
  <2>1. Cursor(m) /\ Told(m) /\ LogInv
    BY DEF RedisInv, MonInv
  <2>2. \A p \in 1..Len(r_log) : r_log[p] \in Ids /\ r_log[p].seq >= 0 /\ R!Ts(r_log[p]) \in Int
    <3>1. \A p \in 1..Len(r_log) : r_log[p] \in Ids /\ r_log[p].seq \in 0..MaxReadings
      BY <2>1 DEF LogInv
    <3> QED
      BY <3>1, TsInt
  <2>3. ASSUME from[m] # None
        PROVE  from[m] \in Int /\ from[m] - 1 \in Int
    BY <2>3 DEF RedisInv
  <2>4. ASSUME from[m] # None, NEW p \in R!Given(m)
        PROVE  R!Ts(r_log[p]) + 1 >= from[m]
    <3>1. p \in 1..Len(r_log) /\ R!Before(R!IdOf(from[m] - 1), r_log[p])
      BY <2>1, <2>4 DEF Cursor, Told, First
    <3>2. R!Ts(r_log[p]) >= from[m] - 1
      BY <2>2, <2>3, <2>4, <3>1, TimeAfter
    <3> QED
      BY <2>2, <2>3, <2>4, <3>1, <3>2
  <2>5. ASSUME mon[m].phase = "blocked", from[m] # None, NEW p \in kept..Len(r_log),
               R!Ts(r_log[p]) >= from[m]
        PROVE  p \in R!Given(m)
    <3>1. kept \in Nat \ {0} /\ Len(r_log) \in Nat
      BY <2>1 DEF LogInv
    <3>2. p \in 1..Len(r_log)
      BY <3>1
    <3>3. R!Ts(r_log[p]) > from[m] - 1
      BY <2>2, <2>3, <2>5, <3>2
    <3>4. R!Before(First(m), r_log[p])
      BY <2>2, <2>3, <2>5, <3>2, <3>3, LaterIsAfter DEF First
    <3> QED
      BY <2>1, <2>5, <3>4 DEF Told, Unread, Active
  <2>6. mon[m].end # 0 => \A p \in R!Given(m) : R!Ts(r_log[p]) <= mon[m].end
    BY <2>1 DEF Told
  <2> QED
    BY <2>4, <2>5, <2>6
<1> QED
  BY <1>1, RedisInvariant, PTL

-----------------------------------------------------------------------------
(* The refinement.  Redis' ids are timestamps of the feed: the sequence      *)
(* number of one never reaches the weight of a millisecond.                  *)

Weight == MaxReadings + 1
Stamp(id) == id.ms * Weight + id.seq
Stamps == [p \in 1..Len(r_log) |-> Stamp(r_log[p])]

\* Stamps are in the order of the ids,
LEMMA StampOrder ==
  ASSUME NEW i \in Ids, NEW j \in Ids, R!Before(i, j), i.seq \in 0..MaxReadings, j.seq \in Nat
  PROVE  Stamp(i) < Stamp(j)
<1>1. i.ms \in Int /\ j.ms \in Int /\ i.seq \in Nat /\ i.seq < Weight /\ Weight \in Nat
  BY DEF Ids, Weight
<1>2. CASE i.ms < j.ms
  <2>1. i.ms * Weight + Weight <= j.ms * Weight
    BY <1>1, <1>2, Steps
  <2>2. i.ms * Weight \in Int /\ j.ms * Weight \in Int
    BY <1>1
  <2> QED
    BY <1>1, <2>1, <2>2 DEF Stamp
<1>3. CASE i.ms = j.ms /\ i.seq < j.seq
  <2>1. i.ms * Weight \in Int
    BY <1>1
  <2> QED
    BY <1>1, <1>3, <2>1 DEF Stamp
<1> QED
  BY <1>2, <1>3 DEF R!Before

\* and within the time of the feed.
LEMMA StampBounded ==
  ASSUME NEW i \in Ids, i.ms \in 0..MaxMs, i.seq \in 0..MaxReadings
  PROVE  Stamp(i) \in 0..((MaxMs + 1) * (MaxReadings + 1))
<1>1. i.ms \in Nat /\ i.ms < MaxMs + 1 /\ MaxMs + 1 \in Nat /\ i.seq \in Nat /\ i.seq < Weight
      /\ Weight \in Nat
  BY DEF Weight
<1>2. i.ms * Weight + Weight <= (MaxMs + 1) * Weight
  BY <1>1, Steps
<1>3. i.ms * Weight \in Nat /\ (MaxMs + 1) * Weight \in Nat
  BY <1>1
<1>4. Stamp(i) \in 0..((MaxMs + 1) * Weight)
  BY <1>1, <1>2, <1>3 DEF Stamp
<1> QED
  BY <1>4 DEF Weight

\* A report is an addition to the feed.
LEMMA ReportIsAdd ==
  ASSUME RedisInv, NEW d, R!ReportValue(d)
  PROVE  R!Feed!Next
<1> DEFINE ts == Stamp(R!NextId)
           n == Len(r_log) + 1
<1>1. /\ Len(r_log') = n /\ Len(r_log) = n - 1 /\ n \in Nat /\ r_log'[n] = R!NextId
      /\ \A p \in 1..(n - 1) : r_log'[p] = r_log[p]
  BY ReportAdds DEF RedisInv
<1>2. /\ R!NextId \in Ids /\ R!NextId.ms \in 0..MaxMs /\ R!NextId.seq \in 0..MaxReadings
      /\ \A p \in 1..(n - 1) : R!Before(r_log[p], R!NextId)
  <2>1. Len(r_log) < MaxReadings
    BY DEF R!ReportValue
  <2>2. R!NextId.seq \in 0..n
    BY NextIdFollows DEF RedisInv
  <2> QED
    BY <1>1, <2>1, <2>2, NextIdFollows DEF RedisInv
<1>3. \A p \in 1..(n - 1) : r_log[p] \in Ids /\ r_log[p].seq \in 0..MaxReadings
                           /\ r_log[p].ms \in 0..MaxMs
  BY <1>1 DEF RedisInv, LogInv
<1>4. ts \in 0..((MaxMs + 1) * (MaxReadings + 1))
  BY <1>2, StampBounded
<1>5. \A p \in 1..(n - 1) : Stamps[p] < ts
  BY <1>1, <1>2, <1>3, StampOrder DEF Stamps
<1>6. Stamps \in Seq(Int) /\ Len(Stamps) = n - 1 /\ ts \in Int
  <2>1. \A p \in 1..(n - 1) : Stamp(r_log[p]) \in Int
    <3>1. \A p \in 1..(n - 1) : Stamp(r_log[p]) \in 0..((MaxMs + 1) * (MaxReadings + 1))
      BY <1>3, StampBounded
    <3> QED
      BY <3>1
  <2> QED
    BY <1>1, <1>4, <2>1 DEF Stamps
<1>7. Stamps' = Append(Stamps, ts)
  <2>1. Stamps' = [p \in 1..n |-> Stamp(r_log'[p])]
    BY <1>1 DEF Stamps, Stamp, Weight
  <2>2. \A p \in 1..n : Stamp(r_log'[p]) = IF p = n THEN ts ELSE Stamps[p]
    BY <1>1 DEF Stamps
  <2>3. Append(Stamps, ts) = [p \in 1..n |-> IF p = n THEN ts ELSE Stamps[p]]
    <3> HIDE DEF ts
    <3> DEFINE A == Append(Stamps, ts)
    <3>1. A \in Seq(Int) /\ Len(A) = Len(Stamps) + 1
      BY <1>6
    <3>2. \A p \in 1..(Len(Stamps) + 1) : A[p] = IF p = Len(Stamps) + 1 THEN ts ELSE Stamps[p]
      BY <1>6
    <3>3. n = Len(Stamps) + 1 /\ n \in Nat
      BY <1>1, <1>6
    <3> HIDE DEF A, n
    <3>4. A = [p \in 1..n |-> A[p]]
      BY <3>1, <3>3
    <3>5. \A p \in 1..n : A[p] = IF p = n THEN ts ELSE Stamps[p]
      BY <3>2, <3>3
    <3>6. A = [p \in 1..n |-> IF p = n THEN ts ELSE Stamps[p]]
      BY <3>4, <3>5
    <3> QED
      BY <3>6 DEF A
  <2> QED
    BY <2>1, <2>2, <2>3
<1>8. r_got' = r_got
  BY DEF R!ReportValue
<1>9. Stamps = <<>> \/ Stamps[Len(Stamps)] < ts
  BY <1>1, <1>5, <1>6
<1> HIDE DEF ts
<1>10. PICK t \in 0..((MaxMs + 1) * (MaxReadings + 1)) : t = ts
  BY <1>4
<1>11. R!Feed!Add(t)
  BY <1>7, <1>8, <1>9, <1>10 DEF R!Feed!Add, R!Feed!Follows, Stamps, Stamp, Weight
<1> QED
  BY <1>11 DEF R!Feed!Next

\* A reading that is yielded is given by the feed.
LEMMA YieldIsGive ==
  ASSUME RedisInv, NEW m \in Monitors, R!PollYields(m)
  PROVE  R!Feed!Next \/ UNCHANGED <<r_log, r_got>>
<1>1. r_log' = r_log
  BY DEF R!PollYields, R!dev
<1>2. CASE mon[m].at # 0 /\ r_got' = [r_got EXCEPT ![m] = Append(@, mon[m].at)]
  <2>1. /\ Cursor(m) /\ r_got[m] \in Seq(Nat) /\ Len(r_log) \in Nat
    BY DEF RedisInv, MonInv, MonTypes, LogInv
  <2>2. mon[m].at \in 1..Len(r_log) /\ \A p \in R!Given(m) : p < mon[m].at
    BY <1>2, <2>1 DEF Cursor
  <2>3. r_got[m] # <<>> => r_got[m][Len(r_got[m])] \in R!Given(m)
    BY <2>1 DEF R!Given
  <2>4. Len(Stamps) = Len(r_log)
    BY <2>1 DEF Stamps
  <2>5. PICK p \in 1..Len(Stamps) : p = mon[m].at
    BY <2>2, <2>4
  <2>6. Stamps' = Stamps
    BY <1>1 DEF Stamps, Stamp, Weight
  <2>7. R!Feed!Give(m, p)
    BY <1>2, <2>2, <2>3, <2>5, <2>6 DEF R!Feed!Give, Stamps, Stamp, Weight
  <2> QED
    BY <2>5, <2>7 DEF R!Feed!Next, Stamps, Stamp, Weight
<1>3. CASE r_got' = r_got
  BY <1>1, <1>3
<1> QED
  BY <1>2, <1>3 DEF R!PollYields

\* The redis backend implements the storage's promise, whatever happens to
\* redis' clock: ids increase, and no stream yields a reading twice or out of
\* order, until the device is initialized again.
THEOREM RedisIsAFeed == R!Spec => RedisImplementsFeed
<1>1. R!Init => R!Feed!Init
  <2> SUFFICES ASSUME R!Init
               PROVE  R!Feed!Init
    OBVIOUS
  <2>1. r_log = <<>> /\ r_got = [m \in Monitors |-> <<>>]
    BY DEF R!Init
  <2> QED
    BY <2>1 DEF R!Feed!Init
<1>2. RedisInv /\ [R!Next]_(R!vars) => [R!Feed!Next \/ R!Begins]_<<r_log, r_got>>
  <2> SUFFICES ASSUME RedisInv, R!Next \/ UNCHANGED R!vars
               PROVE  R!Feed!Next \/ R!Begins \/ UNCHANGED <<r_log, r_got>>
    OBVIOUS
  <2>1. ASSUME NEW d, R!Register(d)
        PROVE  R!Begins \/ UNCHANGED <<r_log, r_got>>
    <3>1. CASE R!InitDevice
      <4>1. r_log' = <<>> /\ r_got' = [m \in Monitors |-> <<>>]
        BY <3>1 DEF R!InitDevice
      <4> QED
        BY <4>1 DEF R!Begins, R!Feed!Init
    <3> QED
      BY <2>1, <3>1 DEF R!Register
  <2>2. ASSUME NEW d, R!ReportValue(d)
        PROVE  R!Feed!Next
    BY <2>2, ReportIsAdd
  <2>3. ASSUME NEW m \in Monitors, R!PollYields(m)
        PROVE  R!Feed!Next \/ UNCHANGED <<r_log, r_got>>
    BY <2>3, YieldIsGive
  <2>4. ASSUME NEW m \in Monitors,
               \/ \E r \in Requests : R!MonitorDevice(m, r)
               \/ R!PollSends(m) \/ R!PollRetries(m) \/ R!TimesOut(m) \/ R!Fails(m)
        PROVE  UNCHANGED <<r_log, r_got>>
    BY <2>4 DEF R!MonitorDevice, R!PollSends, R!PollRetries, R!TimesOut, R!Fails, R!dev
  <2>5. R!Restart \/ (\E t \in 1..MaxMs : R!SetClock(t)) \/ UNCHANGED R!vars
          => UNCHANGED <<r_log, r_got>>
    BY DEF R!Restart, R!SetClock, R!vars, R!dev
  <2> QED
    BY <2>1, <2>2, <2>3, <2>4, <2>5 DEF R!Next
<1> QED
  BY <1>1, <1>2, RedisInvariant, PTL DEF R!Spec, RedisImplementsFeed, R!ImplementsFeed
=============================================================================
