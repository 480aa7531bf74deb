--------------------------- MODULE Drivers_proofs ---------------------------
(***************************************************************************)
(* Proofs about the drivers, for every configuration.  Each theorem is     *)
(* about the specification of one driver; the last one says that MCSpec,   *)
(* which the runs check, is a behaviour of each of them.                   *)
(***************************************************************************)
EXTENDS MCDrivers, TLAPS, WellFoundedInduction, SequenceTheorems,
        FiniteSetTheorems, FunctionTheorems

\* The theorems about overridable devices, for the bulb's.
P == INSTANCE OverridableDevice_proofs

\* A set of natural numbers that is not empty has a least element.
LEMMA LeastOf ==
  ASSUME NEW A, A \subseteq Nat, A # {}
  PROVE  \E i \in A : \A j \in A : i <= j
<1>1. PICK i \in A : \A j \in A : <<j, i>> \notin OpToRel(<, Nat)
  BY WFMin, NatLessThanWellFounded
<1>2. ASSUME NEW j \in A PROVE i <= j
  <2>1. j < i => <<j, i>> \in OpToRel(<, Nat)
    BY DEF OpToRel
  <2>2. ~(j < i)
    BY <1>1, <2>1
  <2> QED
    BY <2>2
<1> QED
  BY <1>2

-----------------------------------------------------------------------------
(* The timer.                                                              *)

\* While the timer runs its timeout is Millis after the last transition.
TimerTimed ==
  /\ t_left \in Nat
  /\ t_since \in 0..Millis
  /\ t_enable \in BOOLEAN
  /\ t_output \in {"active", "inactive"}
  /\ t_output = "active" => t_since + t_left = Millis

TimerInv == T!StateFollowsInput /\ TimerTimed /\ T!NotEarly

\* TimerInv holds at first,
LEMMA InitTimerInv == T!Init => TimerInv
<1> SUFFICES ASSUME T!Init PROVE TimerInv
  OBVIOUS
<1>1. T!StateFollowsInput
  BY DEF T!Init, T!StateFollowsInput, T!States
<1>2. Millis \in 0..Millis
  BY MillisAssumption
<1>3. TimerTimed
  BY <1>2 DEF T!Init, TimerTimed
<1>4. T!NotEarly
  BY DEF T!Init, T!NotEarly
<1> QED
  BY <1>1, <1>3, <1>4 DEF TimerInv

\* and every transition and tick keeps it.
LEMMA NextTimerInv == TimerInv /\ [T!Next]_(T!vars) => TimerInv'
<1> SUFFICES ASSUME TimerInv, [T!Next]_(T!vars) PROVE TimerInv'
  OBVIOUS
<1> USE MillisAssumption DEF TimerInv, T!StateFollowsInput, T!States, TimerTimed, T!NotEarly
<1>1. ASSUME NEW b \in BOOLEAN, T!SetEnable(b) PROVE TimerInv'
  <2>1. CASE b /\ T!Trigger
    BY <1>1, <2>1 DEF T!SetEnable, T!Trigger, T!Report
  <2>2. CASE b /\ T!Retrigger
    BY <1>1, <2>2 DEF T!SetEnable, T!Retrigger, T!ReportNothing
  <2>3. CASE b /\ T!StayTrue
    BY <1>1, <2>3 DEF T!SetEnable, T!StayTrue, T!ReportNothing
  <2>4. CASE ~b /\ T!Arm
    BY <1>1, <2>4 DEF T!SetEnable, T!Arm, T!ReportNothing
  <2> QED
    BY <1>1, <2>1, <2>2, <2>3, <2>4 DEF T!SetEnable
<1>2. CASE T!TimeExpired
  BY <1>2 DEF T!TimeExpired, T!Report
<1>3. CASE T!Tick
  BY <1>3 DEF T!Tick
<1>4. CASE UNCHANGED T!vars
  BY <1>4 DEF T!vars
<1> QED
  BY <1>1, <1>2, <1>3, <1>4 DEF T!Next

\* The timer's state always says what its input and its output are
\* (update_state and time_expired).
THEOREM TimerStateIsRight == T!Spec => []T!StateFollowsInput
<1>1. TimerInv => T!StateFollowsInput
  BY DEF TimerInv
<1> QED
  BY InitTimerInv, NextTimerInv, <1>1, PTL DEF T!Spec

\* However the input changes, the output does not become inactive before
\* Millis have passed since the last transition (the timeout of run).
THEOREM TimerNeverEarly == T!Spec => []T!NotEarly
<1>1. TimerInv => T!NotEarly
  BY DEF TimerInv
<1> QED
  BY InitTimerInv, NextTimerInv, <1>1, PTL DEF T!Spec

\* A report changes the output, so that nothing is reported twice.
THEOREM TimerRepeatsNothing == T!Spec => []T!ChangesOnly
<1>1. T!Init => T!ChangesOnly
  BY DEF T!Init, T!ChangesOnly
<1>2. TimerInv /\ T!ChangesOnly /\ [T!Next]_(T!vars) => T!ChangesOnly'
  <2> SUFFICES ASSUME TimerInv, T!ChangesOnly, [T!Next]_(T!vars) PROVE T!ChangesOnly'
    OBVIOUS
  <2> USE DEF TimerInv, T!StateFollowsInput, TimerTimed, T!ChangesOnly
  <2>1. ASSUME NEW b \in BOOLEAN, T!SetEnable(b) PROVE T!ChangesOnly'
    BY <2>1 DEF T!SetEnable, T!Trigger, T!Retrigger, T!StayTrue, T!Arm, T!Report, T!ReportNothing
  <2>2. CASE T!TimeExpired
    BY <2>2 DEF T!TimeExpired, T!Report
  <2>3. CASE T!Tick \/ UNCHANGED T!vars
    BY <2>3 DEF T!Tick, T!vars
  <2> QED
    BY <2>1, <2>2, <2>3 DEF T!Next
<1> QED
  BY InitTimerInv, NextTimerInv, <1>1, <1>2, PTL DEF T!Spec

-----------------------------------------------------------------------------
(* The latch.  What it reports is what its state is. *)

LatchInv ==
  /\ l_tripped \in BOOLEAN
  /\ l_trigger \in BOOLEAN
  /\ l_reset \in BOOLEAN
  /\ l_output \in {"enabled", "disabled"}
  /\ l_tripped <=> l_output = "enabled"

\* Every transition of its trigger enables a latch that is not held reset and
\* nothing else does; a reset disables it, no later than by the input after it,
\* and nothing else does (update_state of latch).
THEOREM LatchTripsAndResets == L!Spec => TripsAndResets
<1> DEFINE Kept ==
      /\ ~l_reset /\ ~l_trigger /\ l_trigger' => l_output' = "enabled"
      /\ l_output' = "enabled" => ~l_reset /\ (l_output = "enabled" \/ (~l_trigger /\ l_trigger'))
      /\ l_output = "enabled" /\ l_output' = "disabled" => l_reset \/ l_reset'
      /\ l_tripped' <=> l_output' = "enabled"
<1>1. L!Init => LatchInv
  BY DEF L!Init, LatchInv
<1>2. LatchInv /\ [L!Next]_(L!vars) => LatchInv' /\ [Kept]_(L!vars)
  <2> SUFFICES ASSUME LatchInv, [L!Next]_(L!vars) PROVE LatchInv' /\ [Kept]_(L!vars)
    OBVIOUS
  <2> USE DEF LatchInv
  <2>1. ASSUME NEW b \in BOOLEAN, L!SetTrigger(b) PROVE LatchInv' /\ Kept
    <3>1. CASE l_tripped
      BY <2>1, <3>1 DEF L!SetTrigger, L!UpdateState
    <3>2. CASE ~l_tripped /\ (l_trigger \/ ~b)
      BY <2>1, <3>2 DEF L!SetTrigger, L!UpdateState
    <3>3. CASE ~l_tripped /\ ~l_trigger /\ b /\ l_reset
      BY <2>1, <3>3 DEF L!SetTrigger, L!UpdateState
    <3>4. CASE ~l_tripped /\ ~l_trigger /\ b /\ ~l_reset
      BY <2>1, <3>4 DEF L!SetTrigger, L!UpdateState
    <3> QED
      BY <3>1, <3>2, <3>3, <3>4
  <2>2. ASSUME NEW b \in BOOLEAN, L!SetReset(b) PROVE LatchInv' /\ Kept
    <3>1. CASE l_tripped
      BY <2>2, <3>1 DEF L!SetReset, L!UpdateState
    <3>2. CASE ~l_tripped
      BY <2>2, <3>2 DEF L!SetReset, L!UpdateState
    <3> QED
      BY <3>1, <3>2
  <2>3. CASE UNCHANGED L!vars
    BY <2>3 DEF L!vars
  <2> QED
    BY <2>1, <2>2, <2>3 DEF L!Next
<1> QED
  BY <1>1, <1>2, PTL DEF L!Spec, TripsAndResets, L!TripsAndResets

-----------------------------------------------------------------------------
(* The counter. *)

\* The instance forgets that its input is true at a reset only, which is armed
\* from then on until the next setting of the input.
CounterInv ==
  /\ CountsEdges
  /\ c_tripped \in BOOLEAN /\ c_increment \in BOOLEAN /\ c_hidden \in BOOLEAN
  /\ c_extra \in {"none", "armed", "counted"}
  /\ c_extra = "armed" <=> c_increment /\ ~c_tripped

\* Every transition since the last reset is counted once, and one more only after
\* a reset that found the input true; and the count is shown, but for a 0 after a
\* setting of reset to false (increment and reset of counter).
THEOREM CounterCountsEdges == C!Spec => []CountsEdges
<1> USE LimitAssumption DEF CounterInv, CountsEdges, C!CountsEdges
<1>1. C!Init => CounterInv
  BY DEF C!Init
<1>2. CounterInv /\ [C!Next]_(C!vars) => CounterInv'
  <2> SUFFICES ASSUME CounterInv, [C!Next]_(C!vars) PROVE CounterInv'
    OBVIOUS
  <2>1. ASSUME C!SetIncrement(TRUE) PROVE CounterInv'
    <3>1. CASE c_tripped
      BY <2>1, <3>1 DEF C!SetIncrement, C!Increment
    <3>2. CASE ~c_tripped /\ c_increment
      BY <2>1, <3>2 DEF C!SetIncrement, C!Increment
    <3>3. CASE ~c_tripped /\ ~c_increment
      <4>1. c_count' = C!Succ(c_count) /\ c_edges' = C!Succ(c_edges) /\ c_tripped' /\ c_increment'
        BY <2>1, <3>3 DEF C!SetIncrement, C!Increment
      <4>2. c_shown' = c_count' /\ c_hidden' = FALSE /\ c_extra' = c_extra /\ c_extra # "armed"
        BY <2>1, <3>3 DEF C!SetIncrement, C!Increment
      <4> QED
        BY <4>1, <4>2
    <3> QED
      BY <3>1, <3>2, <3>3
  <2>2. ASSUME C!SetIncrement(FALSE) PROVE CounterInv'
    BY <2>2 DEF C!SetIncrement, C!Increment
  <2>3. ASSUME NEW b \in BOOLEAN, C!SetReset(b) PROVE CounterInv'
    BY <2>3 DEF C!SetReset
  <2>4. CASE UNCHANGED C!vars
    BY <2>4 DEF C!vars
  <2> QED
    BY <2>1, <2>2, <2>3, <2>4 DEF C!Next
<1>3. CounterInv => CountsEdges
  OBVIOUS
<1> QED
  BY <1>1, <1>2, <1>3, PTL DEF C!Spec

-----------------------------------------------------------------------------
(* The integrator.  SumsData alone is not inductive: the sum is reset by    *)
(* the instance's state, which follows the input, and not by the input.     *)

IntegralInv ==
  /\ SumsData
  /\ i_total = i_sum
  /\ i_primed \in BOOLEAN
  /\ i_reset = ~i_primed

\* The sum is what data was set to since reset last became true (accumulate and
\* reset of integrate).
THEOREM IntegrateSumsData == I!Spec => []SumsData
<1> USE DEF IntegralInv, SumsData, I!SumsData
<1>1. I!Init => IntegralInv
  BY DEF I!Init
<1>2. IntegralInv /\ [I!Next]_(I!vars) => IntegralInv'
  <2> SUFFICES ASSUME IntegralInv, [I!Next]_(I!vars) PROVE IntegralInv'
    OBVIOUS
  <2>1. ASSUME NEW v \in Data, I!SetData(v) PROVE IntegralInv'
    BY <2>1 DEF I!SetData
  <2>2. ASSUME NEW b \in BOOLEAN, I!SetReset(b) PROVE IntegralInv'
    <3>1. CASE b /\ i_primed
      BY <2>2, <3>1 DEF I!SetReset, I!Reset
    <3>2. CASE b /\ ~i_primed
      BY <2>2, <3>2 DEF I!SetReset, I!Reset
    <3>3. CASE ~b
      BY <2>2, <3>3 DEF I!SetReset, I!Reset
    <3> QED
      BY <3>1, <3>2, <3>3
  <2>3. CASE UNCHANGED I!vars
    BY <2>3 DEF I!vars
  <2> QED
    BY <2>1, <2>2, <2>3 DEF I!Next
<1>3. IntegralInv => SumsData
  OBVIOUS
<1> QED
  BY <1>1, <1>2, <1>3, PTL DEF I!Spec

-----------------------------------------------------------------------------
(* The cycle.  The interval timer and the time that the value is held add   *)
(* up to the period, but for the timer's first tick.                        *)

CycleInv ==
  /\ y_cycling \in BOOLEAN
  /\ y_fresh \in BOOLEAN
  /\ y_left \in 0..Millis
  /\ y_held \in 0..Millis
  /\ y_fresh => y_left = 0
  /\ y_cycling /\ ~y_fresh => y_held + y_left = Millis
  /\ y_cycling => y_output = Enabled[y_index]
  /\ ~y_cycling => y_output = Disabled
  /\ y_repeated = FALSE

\* Each value is held for a full period, and each report is a change
\* (update_state and time_expired of cycle).
THEOREM CycleHoldsEachValue == Y!Spec => HoldsEachValue
<1> DEFINE Kept ==
      /\ y_cycling /\ y_index' # y_index /\ y_cycling' => y_held = Millis \/ y_fresh
      /\ y_output' = (IF y_cycling' THEN Enabled[y_index'] ELSE Disabled)
      /\ ~y_repeated'
<1>1. Y!Init => CycleInv
  BY MillisAssumption DEF Y!Init, CycleInv
<1>2. CycleInv /\ [Y!Next]_(Y!vars) => CycleInv' /\ [Kept]_(Y!vars)
  <2> SUFFICES ASSUME CycleInv, [Y!Next]_(Y!vars) PROVE CycleInv' /\ [Kept]_(Y!vars)
    OBVIOUS
  <2>0. 0 \in 0..Millis /\ Millis \in 0..Millis /\ 0 + Millis = Millis
    BY MillisAssumption
  <2> USE MillisAssumption, <2>0 DEF CycleInv, Y!Report, Y!ReportNothing
  <2>1. CASE Y!Start
    <3>1. y_output' = Enabled[1] /\ y_repeated' = FALSE
      BY <2>1 DEF Y!Start
    <3>2. y_cycling = FALSE /\ y_cycling' = TRUE /\ y_held' = 0 /\ y_left' = Millis /\ y_fresh' = FALSE /\ y_index' = 1
      BY <2>1 DEF Y!Start
    <3>3. CycleInv'
      BY <3>1, <3>2
    <3> QED
      BY <3>1, <3>2, <3>3
  <2>2. CASE Y!Stop
    BY <2>2 DEF Y!Stop
  <2>3. CASE Y!TimeExpired /\ y_cycling
    <3>1. y_output' = Enabled[y_index'] /\ y_repeated' = FALSE
      BY <2>3 DEF Y!TimeExpired
    <3>2. y_left = 0 /\ y_cycling' = TRUE /\ y_held' = 0 /\ y_left' = Millis /\ y_fresh' = FALSE
      BY <2>3 DEF Y!TimeExpired
    <3>3. CycleInv'
      BY <3>1, <3>2
    <3> QED
      BY <3>1, <3>2, <3>3
  <2>4. CASE Y!TimeExpired /\ ~y_cycling
    BY <2>4 DEF Y!TimeExpired
  <2>5. CASE Y!Tick
    BY <2>5 DEF Y!Tick
  <2>6. CASE UNCHANGED Y!vars
    BY <2>6 DEF Y!vars
  <2> QED
    BY <2>1, <2>2, <2>3, <2>4, <2>5, <2>6 DEF Y!Next, Y!SetEnable
<1> QED
  BY <1>1, <1>2, PTL DEF Y!Spec, HoldsEachValue, Y!HoldsEachValue

-----------------------------------------------------------------------------
(* The pump.  That the cycles add up is inductive with the order of the     *)
(* stop, the start and the cycles' first stop.                              *)

SumpTimes ==
  /\ s_mode \in {"Unknown", "Off", "On"}
  /\ s_off \in Nat /\ s_on \in Nat /\ s_base \in Nat /\ s_total \in Nat
  /\ s_mode = "On" => s_off < s_on
  /\ s_mode # "Unknown" => s_total = s_off - s_base
  /\ s_duty \in 0..1000 /\ s_flow \in 0..(Gpm * 100)

SumpShows ==
  /\ s_state \in BOOLEAN
  /\ s_mode = "Unknown" => ~s_state
  /\ s_stepped \/ (s_state <=> s_mode = "On")

\* A quotient of at most k is not more than k when it is rounded.
LEMMA RoundedShare ==
  ASSUME NEW n \in Nat, NEW d \in Nat \ {0}, NEW k \in Nat, n <= k * d
  PROVE  S!Rounded(n, d) \in 0..k
<1> DEFINE a == 2 * n + d
           b == 2 * d
           q == a \div b
<1>1. a \in Nat /\ b \in Nat \ {0} /\ a < b * (k + 1)
  OBVIOUS
<1>2. q \in Nat /\ b * q <= a
  BY <1>1
<1>3. q < k + 1
  <2> SUFFICES ASSUME k + 1 <= q PROVE FALSE
    BY <1>2
  <2>1. b * (k + 1) <= b * q
    BY <1>1, <1>2
  <2> QED
    BY <2>1, <1>1, <1>2
<1> QED
  BY <1>2, <1>3 DEF S!Rounded

\* The cycles that are reported leave out no time and count none twice, and the
\* pump runs for no more than the whole of each (off_event and on_event).
THEOREM SumpCyclesAddUp == S!Spec => []CyclesAddUp
<1>1. 0 \in 0..1000 /\ 0 \in 0..(Gpm * 100)
  BY SumpAssumption
<1>2. S!Init => SumpTimes /\ SumpShows
  <2>1. S!Init => SumpTimes
    BY <1>1 DEF S!Init, SumpTimes
  <2>2. S!Init => SumpShows
    BY DEF S!Init, SumpShows
  <2> QED
    BY <2>1, <2>2
<1>3. SumpTimes /\ [S!Next]_(S!vars) => SumpTimes'
  <2> SUFFICES ASSUME SumpTimes, [S!Next]_(S!vars) PROVE SumpTimes'
    OBVIOUS
  <2> USE SumpAssumption, <1>1 DEF SumpTimes
  <2>1. ASSUME NEW stamp \in 0..LastStamp, S!OffEvent(stamp) PROVE SumpTimes'
    <3>0. stamp \in Nat
      OBVIOUS
    <3>1. CASE S!StopAt(stamp)
      BY <3>0, <3>1 DEF S!StopAt, S!cycle
    <3>2. CASE UNCHANGED S!vars
      BY <3>2 DEF S!vars
    <3>3. CASE S!EndCycle(stamp) /\ s_mode = "On" /\ s_on < stamp
      <4> DEFINE running == stamp - s_on
                 length == stamp - s_off
      <4>2. running \in Nat /\ length \in Nat /\ running < length
        BY <3>0, <3>3
      <4> HIDE DEF running, length
      <4>3. ASSUME NEW k \in Nat, NEW n \in Nat, n = k * running
            PROVE  S!Rounded(n, length) \in 0..k
        <5>1. k * running <= k * length
          BY <4>2, <4>3
        <5>2. n <= k * length /\ length \in Nat \ {0}
          BY <4>2, <4>3, <5>1
        <5> QED
          BY <4>3, <5>2, RoundedShare
      <4>4. S!Rounded(running * 1000, length) \in 0..1000
        <5> DEFINE k == 1000
                   n == running * 1000
        <5>1. k \in Nat /\ n \in Nat /\ n = k * running
          BY <4>2
        <5> HIDE DEF k, n
        <5>2. S!Rounded(n, length) \in 0..k
          BY <5>1, <4>3
        <5> QED
          BY <5>2 DEF k, n
      <4>5. S!Rounded(Gpm * running * 100, length) \in 0..(Gpm * 100)
        <5> DEFINE k == Gpm * 100
                   n == Gpm * running * 100
        <5>1. k \in Nat /\ n \in Nat /\ n = k * running
          BY <4>2, SumpAssumption
        <5> HIDE DEF k, n
        <5>2. S!Rounded(n, length) \in 0..k
          BY <5>1, <4>3
        <5> QED
          BY <5>2 DEF k, n
      <4>6. s_duty' \in 0..1000 /\ s_flow' \in 0..(Gpm * 100)
        <5>1. /\ s_duty' = S!Rounded(running * 1000, length)
              /\ s_flow' = S!Rounded(Gpm * running * 100, length)
          BY <3>3 DEF S!EndCycle, running, length
        <5> QED
          BY <4>4, <4>5, <5>1
      <4>7. /\ s_off' = stamp /\ s_base' = s_base /\ s_total' = s_total + length
            /\ s_mode' = "Off" /\ s_on' = s_on /\ s_total = s_off - s_base
        BY <3>3, <3>0 DEF S!EndCycle, length
      <4>8. s_total' = s_off' - s_base' /\ s_total' \in Nat
        BY <4>2, <4>7, <3>0 DEF length
      <4> QED
        BY <4>6, <4>7, <4>8, <3>0
    <3> QED
      BY <2>1, <3>0, <3>1, <3>2, <3>3 DEF S!OffEvent
  <2>2. ASSUME NEW stamp \in 0..LastStamp, S!OnEvent(stamp) PROVE SumpTimes'
    <3>1. CASE s_mode = "Off" /\ stamp > s_off
      <4>1. /\ s_mode' = "On" /\ s_on' = stamp /\ s_off' = s_off /\ s_base' = s_base
            /\ s_total' = s_total /\ s_duty' = s_duty /\ s_flow' = s_flow
        BY <2>2, <3>1 DEF S!OnEvent, S!cycle
      <4> QED
        BY <3>1, <4>1
    <3>2. CASE ~(s_mode = "Off" /\ stamp > s_off)
      <4>1. UNCHANGED S!vars
        <5> HIDE DEF SumpTimes
        <5> QED
          BY <2>2, <3>2, Zenon DEF S!OnEvent
      <4> QED
        BY <4>1 DEF S!vars
    <3> QED
      BY <3>1, <3>2
  <2>3. CASE S!ReadFails
    BY <2>3 DEF S!ReadFails, S!cycle
  <2>4. CASE S!Restarts
    BY <2>4 DEF S!Restarts
  <2>5. CASE UNCHANGED S!vars
    BY <2>5 DEF S!vars
  <2> QED
    BY <2>1, <2>2, <2>3, <2>4, <2>5 DEF S!Next
<1>4. SumpTimes /\ SumpShows /\ [S!Next]_(S!vars) => SumpShows'
  <2> SUFFICES ASSUME SumpTimes, SumpShows, [S!Next]_(S!vars) PROVE SumpShows'
    OBVIOUS
  <2> USE DEF SumpShows
  <2>1. ASSUME NEW stamp \in 0..LastStamp, S!OffEvent(stamp) PROVE SumpShows'
    <3>1. CASE S!StopAt(stamp) /\ s_mode = "Unknown" /\ UNCHANGED s_stepped
      BY <3>1 DEF S!StopAt
    <3>2. CASE S!StopAt(stamp) /\ s_stepped' = TRUE
      BY <3>2 DEF S!StopAt
    <3>3. CASE S!EndCycle(stamp)
      BY <3>3 DEF S!EndCycle
    <3>4. CASE UNCHANGED S!vars
      BY <3>4 DEF S!vars
    <3> QED
      BY <2>1, <3>1, <3>2, <3>3, <3>4 DEF S!OffEvent
  <2>2. ASSUME NEW stamp \in 0..LastStamp, S!OnEvent(stamp) PROVE SumpShows'
    <3>1. CASE s_mode' = "On" /\ s_state' = TRUE
      BY <3>1
    <3>2. CASE UNCHANGED S!vars
      BY <3>2 DEF S!vars
    <3> QED
      BY <2>2, <3>1, <3>2 DEF S!OnEvent
  <2>3. CASE S!ReadFails
    BY <2>3 DEF S!ReadFails
  <2>4. CASE S!Restarts
    BY <2>4 DEF S!Restarts
  <2>5. CASE UNCHANGED S!vars
    BY <2>5 DEF S!vars
  <2> QED
    BY <2>1, <2>2, <2>3, <2>4, <2>5 DEF S!Next
<1>5. SumpTimes /\ SumpShows => CyclesAddUp
  <2>1. SumpTimes => s_duty <= 1000 /\ s_flow <= Gpm * 100
    BY DEF SumpTimes
  <2>2. SumpShows => s_stepped \/ s_state = (s_mode = "On")
    BY DEF SumpShows
  <2> QED
    BY <2>1, <2>2 DEF SumpTimes, CyclesAddUp, S!CyclesAddUp
<1> QED
  BY <1>2, <1>3, <1>4, <1>5, PTL DEF S!Spec


-----------------------------------------------------------------------------
(* The rain gauge.  CountsRain says nothing between two rainfalls; what the *)
(* next one starts with needs what the station shows of it before it is     *)
(* raining for the driver, and a restart what it shows of those that are    *)
(* over.                                                                    *)

RainTypes ==
  /\ r_mode \in {"NoRain", "Rain", "Pause"}
  /\ r_station \in Nat /\ r_prev \in Nat /\ r_running \in Nat
  /\ r_total \in Nat /\ r_fallen \in Nat
  /\ r_again \in Nat /\ r_ended \in 0..r_station

\* What is counted is not more than what there is to count, and all of it while
\* the station did not start again.
RainCounted(counted, whole) ==
  /\ counted <= whole
  /\ ~r_midnight => counted = whole

RainInv ==
  /\ RainTypes
  /\ RainCounted(r_station, r_fallen + r_ended)
  /\ r_mode = "NoRain" => RainCounted(r_station, r_fallen + r_again)
  /\ r_mode # "NoRain" => r_midnight \/ r_prev <= r_station
  /\ r_mode = "Pause" => r_again = 0 /\ RainCounted(R!More, r_fallen)
  /\ r_mode = "Rain" => r_total = r_running /\ RainCounted(r_running + R!More, r_fallen + r_again)

\* A sample keeps the account, whatever the station did since the last one.
LEMMA SampleCounts == RainInv /\ R!Sample => RainInv'
<1> SUFFICES ASSUME RainInv, R!Sample PROVE RainInv'
  OBVIOUS
<1> USE DEF RainInv, RainTypes, RainCounted, R!Sample, R!More, R!rainfall
<1>1. CASE R!SampleNoRain
  <2>1. CASE r_station > 0
    BY <1>1, <2>1 DEF R!SampleNoRain, R!Raining
  <2>2. CASE r_station = 0
    <3>1. /\ r_mode' = "NoRain" /\ r_fallen' = 0 /\ r_midnight' = FALSE /\ r_again' = 0
          /\ r_total' = 0 /\ UNCHANGED <<r_ended, r_prev, r_running, r_station>>
      BY <1>1, <2>2 DEF R!SampleNoRain, R!Over
    <3>2. r_ended = 0
      BY <2>2
    <3> QED
      BY <3>1, <3>2, <2>2
  <2> QED
    BY <2>1, <2>2
<1>2. CASE R!SamplePause
  <2>1. CASE r_station = 0
    BY <1>2, <2>1 DEF R!SamplePause, R!Over
  <2>2. CASE r_station > r_prev
    BY <1>2, <2>2 DEF R!SamplePause, R!Raining
  <2>3. CASE r_station < r_prev /\ r_station # 0
    BY <1>2, <2>3 DEF R!SamplePause, R!Raining
  <2>4. CASE r_station = r_prev /\ r_station # 0
    BY <1>2, <2>4 DEF R!SamplePause, R!Over
  <2> QED
    BY <2>1, <2>2, <2>3, <2>4
<1>3. CASE R!SampleRain
  <2>1. CASE ~r_raining /\ r_since = Dry
    <3>1. ~r_midnight' => r_prev <= r_station
      <4>1. r_midnight' = (r_prev > r_station)
        BY <1>3, <2>1 DEF R!SampleRain
      <4>2. r_prev <= r_station \/ r_prev > r_station
        OBVIOUS
      <4> QED
        BY <4>1, <4>2
    <3>2. /\ r_mode' = "Pause" /\ r_fallen' = R!More /\ r_total' = 0
          /\ r_ended' = r_station - R!More /\ r_again' = 0
          /\ UNCHANGED <<r_prev, r_running, r_station>>
      BY <1>3, <2>1 DEF R!SampleRain, R!Over
    <3>3. R!More \in 0..r_station
      OBVIOUS
    <3> QED
      BY <3>1, <3>2, <3>3
  <2>2. CASE ~(~r_raining /\ r_since = Dry)
    BY <1>3, <2>2 DEF R!SampleRain
  <2> QED
    BY <2>1, <2>2
<1> QED
  BY <1>1, <1>2, <1>3

\* A rainfall's total is not more than what fell in it and, after a panic, what
\* was in the day's rainfalls before it, and none of these is left out while the
\* station does not start again (PrecipState).
THEOREM RainfallCountsRain == R!Spec => []CountsRain
<1> DEFINE NoError == r_up => ~r_error
<1>1. R!Init => RainInv /\ NoError
  BY RainfallAssumption DEF R!Init, RainInv, RainTypes, RainCounted
<1>2. RainInv /\ [R!Next]_(R!vars) => RainInv'
  <2> SUFFICES ASSUME RainInv, [R!Next]_(R!vars) PROVE RainInv'
    OBVIOUS
  <2> USE DEF RainInv, RainTypes, RainCounted, R!More, R!driver, R!precip, R!rainfall
  <2>1. ASSUME NEW n \in 1..2, R!Rains(n) PROVE RainInv'
    BY <2>1 DEF R!Rains
  <2>2. CASE R!RainStops
    BY <2>2 DEF R!RainStops
  <2>3. CASE R!Midnight
    BY <2>3 DEF R!Midnight
  <2>4. CASE R!Sample
    BY <2>4, SampleCounts
  <2>5. CASE R!Fails
    BY <2>5 DEF R!Fails
  <2>6. CASE R!Restarts
    BY <2>6 DEF R!Restarts
  <2>7. CASE UNCHANGED R!vars
    BY <2>7 DEF R!vars
  <2> QED
    BY <2>1, <2>2, <2>3, <2>4, <2>5, <2>6, <2>7 DEF R!Next
<1>3. NoError /\ [R!Next]_(R!vars) => NoError'
  BY DEF R!Next, R!Rains, R!RainStops, R!Midnight, R!Sample, R!Fails, R!Restarts,
     R!vars, R!driver, R!rainfall
<1>4. RainInv /\ NoError => CountsRain
  <2> SUFFICES ASSUME RainInv, NoError, r_mode = "Rain"
               PROVE  /\ r_up => ~r_error
                      /\ r_total <= r_fallen + r_again
                      /\ ~r_midnight => r_total + (r_station - r_prev) = r_fallen + r_again
    BY DEF CountsRain, R!CountsRain
  <2> QED
    BY DEF RainInv, RainTypes, RainCounted, R!More
<1> QED
  BY <1>1, <1>2, <1>3, <1>4, PTL DEF R!Spec

-----------------------------------------------------------------------------
(* The memory driver.  What is held is what its client was answered with,   *)
(* and its type is right.                                                   *)

HeldIsReplied ==
  k_held # <<>> =>
    /\ k_held[1] \in K!Cells
    /\ K!SameType(k_held[2], Initial[k_held[1]])
    /\ k_replied[k_held[1]] = k_held[2]

MemoryInv ==
  /\ KeepsLastSetting
  /\ HeldIsReplied
  /\ ~k_running => k_held = <<>>
  /\ DOMAIN k_stored = K!Cells /\ DOMAIN k_replied = K!Cells

MemoryQueues == k_queue \in [K!Cells -> Seq(Settings)]

\* Only settings are in the queues of the memory devices.
LEMMA QueuesHoldSettings == MemoryQueues /\ [K!Next]_(K!vars) => MemoryQueues'
<1> SUFFICES ASSUME MemoryQueues, [K!Next]_(K!vars) PROVE MemoryQueues'
  OBVIOUS
<1>1. <<>> \in Seq(Settings)
  BY EmptySeq
<1> USE <1>1 DEF MemoryQueues
<1>2. CASE K!Register \/ K!ReportUpdate \/ UNCHANGED K!vars
  BY <1>2 DEF K!Register, K!ReportUpdate, K!vars
<1>3. ASSUME NEW c \in K!Cells, NEW v \in Settings, K!Set(c, v) PROVE MemoryQueues'
  <2>1. Append(k_queue[c], v) \in Seq(Settings)
    BY AppendProperties
  <2> QED
    BY <1>3, <2>1 DEF K!Set
<1>4. CASE K!GetNext
  <2> DEFINE rest(c) == SubSeq(k_queue[c], K!FirstGood(c) + 1, Len(k_queue[c]))
  <2>1. ASSUME NEW c \in K!Cells, K!Good(c) # {} PROVE rest(c) \in Seq(Settings)
    <3>1. K!FirstGood(c) \in K!Good(c)
      <4>1. K!Good(c) \subseteq Nat
        BY DEF K!Good
      <4>2. \E i \in K!Good(c) : \A j \in K!Good(c) : i <= j
        BY <2>1, <4>1, LeastOf
      <4> QED
        BY <4>2 DEF K!FirstGood
    <3>2. K!FirstGood(c) \in 1..Len(k_queue[c])
      BY <3>1 DEF K!Good
    <3> HIDE DEF MemoryQueues
    <3>3. \A i \in (K!FirstGood(c) + 1)..Len(k_queue[c]) : k_queue[c][i] \in Settings
      BY <3>2 DEF MemoryQueues
    <3>4. K!FirstGood(c) + 1 \in Int /\ Len(k_queue[c]) \in Int
      BY <3>2 DEF MemoryQueues
    <3> QED
      BY <3>3, <3>4, SubSeqProperties
  <2> DEFINE ready == {c \in K!Cells : K!Good(c) # {}}
             next == CHOOSE c \in ready : \A d \in ready : c <= d
  <2>2. CASE ready = {}
    <3>1. k_queue' = [c \in K!Cells |-> <<>>]
      BY <1>4, <2>2 DEF K!GetNext
    <3> QED
      BY <3>1
  <2>3. CASE ready # {}
    <3>1. \E c \in ready : \A d \in ready : c <= d
      BY <2>3, LeastOf, MemoryAssumption DEF K!Cells
    <3>2. next \in ready
      BY <3>1
    <3>3. rest(next) \in Seq(Settings)
      BY <3>2, <2>1
    <3>4. k_queue' = [c \in K!Cells |->
             IF c < next THEN <<>> ELSE IF c = next THEN rest(c) ELSE k_queue[c]]
      BY <1>4, <2>3 DEF K!GetNext
    <3> HIDE DEF next, rest
    <3> QED
      BY <3>3, <3>4
  <2> QED
    BY <2>2, <2>3
<1>5. CASE K!Stops
  BY <1>5 DEF K!Stops
<1> QED
  BY <1>2, <1>3, <1>4, <1>5 DEF K!Next

\* While the driver runs each device has the type it was configured with, and
\* the value with which its last client was answered (run and get_next).
THEOREM MemoryKeepsLastSetting == K!Spec => []KeepsLastSetting
<1> USE MemoryAssumption DEF K!Cells, K!Nothing
<1>1. K!Init => MemoryInv /\ MemoryQueues
  BY EmptySeq DEF K!Init, MemoryInv, KeepsLastSetting, K!KeepsLastSetting, HeldIsReplied,
     MemoryQueues
<1>2. MemoryQueues /\ MemoryInv /\ [K!Next]_(K!vars) => MemoryInv'
  <2> SUFFICES ASSUME MemoryQueues, MemoryInv, [K!Next]_(K!vars) PROVE MemoryInv'
    OBVIOUS
  <2> USE DEF MemoryInv, KeepsLastSetting, K!KeepsLastSetting, HeldIsReplied, K!SameType
  <2>1. CASE K!Register
    BY <2>1 DEF K!Register, K!Keeps
  <2>2. ASSUME NEW c \in K!Cells, NEW v \in Settings, K!Set(c, v) PROVE MemoryInv'
    BY <2>2 DEF K!Set
  <2>3. CASE K!GetNext
    <3> DEFINE ready == {c \in K!Cells : K!Good(c) # {}}
               next == CHOOSE c \in ready : \A d \in ready : c <= d
               v == k_queue[next][K!FirstGood(next)]
    <3>1. CASE ready = {}
      <4>1. UNCHANGED <<k_running, k_stored, k_held, k_replied>>
        BY <2>3, <3>1 DEF K!GetNext
      <4> QED
        BY <4>1
    <3>2. CASE ready # {}
      <4>1. next \in ready
        <5>1. \E c \in ready : \A d \in ready : c <= d
          BY <3>2, LeastOf
        <5> QED
          BY <5>1
      <4>2. K!FirstGood(next) \in K!Good(next)
        <5>1. k_queue[next] \in Seq(Settings)
          BY <4>1 DEF MemoryQueues
        <5> HIDE DEF next
        <5>2. K!Good(next) \subseteq Nat
          BY <5>1 DEF K!Good
        <5>3. K!Good(next) # {}
          BY <4>1
        <5>4. \E i \in K!Good(next) : \A j \in K!Good(next) : i <= j
          BY <5>2, <5>3, LeastOf
        <5> QED
          BY <5>4 DEF K!FirstGood
      <4>3. K!SameType(v, Initial[next])
        BY <4>2 DEF K!Good
      <4>4. k_held' = <<next, v>> /\ k_replied' = [k_replied EXCEPT ![next] = k_held'[2]]
        BY <2>3, <3>2 DEF K!GetNext
      <4>5. k_running' = k_running /\ k_running /\ k_stored' = k_stored /\ k_held = <<>>
        BY <2>3 DEF K!GetNext
      <4> HIDE DEF ready, next, v
      <4>6. k_held' # <<>> /\ k_held'[1] = next /\ k_held'[2] = v
        BY <4>4
      <4> QED
        BY <4>1, <4>3, <4>4, <4>5, <4>6 DEF ready
    <3> QED
      BY <3>1, <3>2
  <2>4. CASE K!ReportUpdate
    BY <2>4 DEF K!ReportUpdate
  <2>5. CASE K!Stops
    BY <2>5 DEF K!Stops
  <2>6. CASE UNCHANGED K!vars
    BY <2>6 DEF K!vars
  <2> QED
    BY <2>1, <2>2, <2>3, <2>4, <2>5, <2>6 DEF K!Next
<1>3. MemoryInv => KeepsLastSetting
  BY DEF MemoryInv
<1> QED
  BY <1>1, <1>2, <1>3, QueuesHoldSettings, PTL DEF K!Spec

-----------------------------------------------------------------------------
(* The NTP driver.  While nothing failed, what the socket holds is the      *)
(* answer to the driver's last request and no more, and the devices show    *)
(* what was reported last.                                                  *)

Hosts == N!Infos \cup {N!None}

\* A host is neither unknown nor unmatched.
LEMMA HostKinds ==
  N!None \notin N!Infos /\ N!Unmatched \notin N!Infos /\ N!Unmatched # N!None
  BY DEF N!None, N!Infos, N!Unmatched

FragmentOf(host, i, more) == [kind |-> "info", part |-> i, more |-> more, info |-> host]

DevicesShowInfo ==
  /\ n_info \in N!Infos \cup {N!None, N!Unmatched}
  /\ n_info \in N!Infos => n_state /\ n_source = n_info
  /\ n_info \notin N!Infos => ~n_state

\* A host's information is in one packet or in two, the first of which may have
\* been read.
HostOnWire ==
  \/ n_got = 0 /\ n_wire = <<FragmentOf(n_answer, 0, FALSE)>>
  \/ n_got = 0 /\ n_answer # N!None
     /\ n_wire = <<FragmentOf(n_answer, 0, TRUE), FragmentOf(n_answer, 1, FALSE)>>
  \/ n_got = 1 /\ n_answer # N!None /\ n_wire = <<FragmentOf(n_answer, 1, FALSE)>>

InStep ==
  /\ n_answer \in Hosts
  /\ DevicesShowInfo
  /\ n_phase = "waiting" => n_got = 0 /\ n_wire = <<>> /\ n_info \in {N!Unmatched, n_answer}
  /\ n_phase = "synced" => n_got = 0 /\ n_wire = <<N!Status(n_answer)>>
  /\ n_phase = "host" => HostOnWire

NtpInv ==
  /\ n_server \in Hosts
  /\ n_phase \in {"waiting", "synced", "host"}
  /\ n_faults \in 0..Faults
  /\ n_faults = Faults => InStep

\* What is left of two packets.
LEMMA TailOfTwo == \A a, b : Tail(<<a, b>>) = <<b>>
  OBVIOUS

\* What arrives at an empty socket fits it.
LEMMA ArriveAtEmpty ==
  ASSUME NEW Packets, NEW packets \in Seq(Packets), Len(packets) <= 2, N!Arrive(<<>>, packets)
  PROVE  n_wire' = packets
<1>1. <<>> \o packets = packets
  BY ConcatEmptySeq
<1>2. Len(packets) <= BufferSize
  BY NtpAssumption
<1>3. SubSeq(packets, 1, Len(packets)) = packets
  BY SubSeqFull
<1>4. n_wire' = SubSeq(packets, 1, Len(packets))
  BY <1>1, <1>2, NtpAssumption DEF N!Arrive
<1> QED
  BY <1>3, <1>4

\* A poll that ends with what the daemon answered leaves the driver in step.
LEMMA PollEnds ==
  ASSUME InStep, NtpInv, n_wire' = <<>>, UNCHANGED <<n_server, n_answer, n_faults>>,
         IF n_answer = N!None THEN N!GiveUp ELSE N!Report(n_answer)
  PROVE  NtpInv'
<1> USE NtpAssumption, HostKinds DEF Hosts
<1>1. n_phase' = "waiting" /\ n_got' = 0 /\ n_info' = n_answer
  BY DEF N!GiveUp, N!Report
<1>2. n_info = N!None => ~n_state
  BY DEF InStep, DevicesShowInfo
<1>3. ASSUME n_answer = N!None, N!GiveUp PROVE DevicesShowInfo'
  <2>1. ~n_state' /\ n_info' = N!None
    BY <1>2, <1>3 DEF N!GiveUp
  <2> QED
    BY <2>1 DEF DevicesShowInfo
<1>4. ASSUME n_answer # N!None, N!Report(n_answer) PROVE DevicesShowInfo'
  <2>1. n_answer \in N!Infos
    BY <1>4 DEF InStep
  <2>2. CASE n_answer = n_info
    BY <1>1, <1>4, <2>1, <2>2 DEF N!Report, InStep, DevicesShowInfo
  <2>3. CASE n_answer # n_info
    <3>1. n_state' /\ n_source' = n_answer
      BY <1>4, <2>3 DEF N!Report
    <3> QED
      BY <1>1, <2>1, <3>1 DEF DevicesShowInfo
  <2> QED
    BY <2>2, <2>3
<1>5. DevicesShowInfo'
  BY <1>3, <1>4
<1>6. InStep'
  BY <1>1, <1>5 DEF InStep
<1> QED
  BY <1>1, <1>6 DEF NtpInv

\* As long as no packet is lost the driver shows after each poll what the daemon
\* answered in it (get_synced_host, get_host_info and run).
THEOREM NtpFollowsServer == N!Init /\ [][N!Next]_(N!vars) => []FollowsServer
<1> USE NtpAssumption, HostKinds DEF Hosts
<1> DEFINE Typed == n_state \in BOOLEAN
<1>1. N!Init => NtpInv
  <2>1. N!Init => InStep
    BY DEF N!Init, InStep, DevicesShowInfo
  <2>2. Faults \in 0..Faults
    OBVIOUS
  <2> QED
    BY <2>1, <2>2 DEF N!Init, NtpInv
<1>2. NtpInv /\ [N!Next]_(N!vars) => NtpInv'
  <2> SUFFICES ASSUME NtpInv, [N!Next]_(N!vars) PROVE NtpInv'
    OBVIOUS
  <2>1. CASE N!AskForSynced
    <3>1. ASSUME n_faults = Faults PROVE n_wire' = <<N!Status(n_answer')>>
      <4>1. N!Arrive(<<>>, <<N!Status(n_server)>>) /\ n_answer' = n_server
        BY <2>1, <3>1 DEF N!AskForSynced, NtpInv, InStep
      <4>2. <<N!Status(n_server)>> \in Seq({N!Status(n_server)}) /\ Len(<<N!Status(n_server)>>) <= 2
        OBVIOUS
      <4> QED
        BY <4>1, <4>2, ArriveAtEmpty
    <3> QED
      BY <2>1, <3>1 DEF N!AskForSynced, NtpInv, InStep, DevicesShowInfo
  <2>2. CASE N!ReadStatus
    <3>1. CASE n_faults = Faults
      <4>1. n_phase = "synced" /\ InStep /\ n_wire = <<N!Status(n_answer)>>
        BY <2>2, <3>1 DEF N!ReadStatus, NtpInv, InStep
      <4>2. Head(n_wire) = N!Status(n_answer) /\ Tail(n_wire) = <<>>
        BY <4>1
      <4>3. Head(n_wire).kind = "status" /\ Head(n_wire).info = n_answer
        BY <4>2 DEF N!Status
      <4>4. UNCHANGED <<n_server, n_faults>>
        BY <2>2 DEF N!ReadStatus
      <4>5. CASE n_answer = N!None /\ N!GiveUp /\ n_wire' = <<>> /\ UNCHANGED n_answer
        <5>1. InStep'
          BY <4>1, <4>5 DEF N!GiveUp, InStep, DevicesShowInfo
        <5> QED
          BY <4>4, <4>5, <5>1 DEF N!GiveUp, NtpInv
      <4>6. CASE N!AskForHost
        <5>1. PICK r \in N!HostReplies : N!Arrive(<<>>, r)
          BY <4>2, <4>6 DEF N!AskForHost
        <5>2. /\ r \in Seq({N!Fragment(0, FALSE), N!Fragment(0, TRUE), N!Fragment(1, FALSE)})
              /\ Len(r) <= 2
          <6>1. CASE r = <<N!Fragment(0, FALSE)>>
            BY <6>1
          <6>2. CASE r = <<N!Fragment(0, TRUE), N!Fragment(1, FALSE)>>
            BY <6>2
          <6> QED
            BY <5>1, <6>1, <6>2 DEF N!HostReplies
        <5>3. n_wire' = r
          BY <5>1, <5>2, ArriveAtEmpty
        <5>4. n_phase' = "host" /\ n_got' = 0 /\ n_answer' = n_server /\ UNCHANGED <<n_info, n_state, n_source>>
          BY <4>6 DEF N!AskForHost
        <5>5. HostOnWire'
          BY <5>1, <5>3, <5>4 DEF N!HostReplies, N!Fragment, FragmentOf, HostOnWire
        <5>6. InStep'
          BY <4>1, <5>4, <5>5 DEF InStep, DevicesShowInfo, NtpInv
        <5> QED
          BY <4>4, <5>4, <5>6 DEF NtpInv
      <4> QED
        BY <2>2, <4>2, <4>3, <4>5, <4>6 DEF N!ReadStatus
    <3> QED
      BY <2>2, <3>1 DEF N!ReadStatus, N!GiveUp, N!AskForHost, NtpInv
  <2>3. CASE N!ReadHost
    <3>1. CASE n_faults = Faults
      <4>1. n_phase = "host" /\ InStep /\ HostOnWire
        BY <2>3, <3>1 DEF N!ReadHost, NtpInv, InStep
      <4>2. UNCHANGED <<n_server, n_answer, n_faults>> /\ n_wire' = Tail(n_wire)
        BY <2>3 DEF N!ReadHost
      <4>3. CASE n_got = 0 /\ n_wire = <<FragmentOf(n_answer, 0, FALSE)>>
        <5>1. Head(n_wire) = FragmentOf(n_answer, 0, FALSE) /\ n_wire' = <<>>
          BY <4>2, <4>3
        <5>2. IF n_answer = N!None THEN N!GiveUp ELSE N!Report(n_answer)
          BY <2>3, <4>3, <5>1 DEF N!ReadHost, FragmentOf
        <5> QED
          BY <4>1, <4>2, <5>1, <5>2, PollEnds, <3>1
      <4>4. CASE n_got = 1 /\ n_answer # N!None /\ n_wire = <<FragmentOf(n_answer, 1, FALSE)>>
        <5>1. Head(n_wire) = FragmentOf(n_answer, 1, FALSE) /\ n_wire' = <<>>
          BY <4>2, <4>4
        <5>2. N!Report(n_answer)
          BY <2>3, <4>4, <5>1 DEF N!ReadHost, FragmentOf
        <5> QED
          BY <4>1, <4>2, <4>4, <5>1, <5>2, PollEnds, <3>1
      <4>5. CASE /\ n_got = 0 /\ n_answer # N!None
                 /\ n_wire = <<FragmentOf(n_answer, 0, TRUE), FragmentOf(n_answer, 1, FALSE)>>
        <5>1. Head(n_wire) = FragmentOf(n_answer, 0, TRUE) /\ n_wire' = <<FragmentOf(n_answer, 1, FALSE)>>
          <6>1. n_wire # <<>> /\ Head(n_wire) = FragmentOf(n_answer, 0, TRUE)
            BY <4>5
          <6>2. Tail(n_wire) = <<FragmentOf(n_answer, 1, FALSE)>>
            BY <4>5, TailOfTwo
          <6> QED
            BY <4>2, <6>1, <6>2
        <5>2. n_got' = 1 /\ UNCHANGED <<n_phase, n_info, n_state, n_source>>
          BY <2>3, <4>5, <5>1 DEF N!ReadHost, FragmentOf
        <5>3. HostOnWire'
          BY <4>2, <4>5, <5>1, <5>2 DEF HostOnWire, FragmentOf
        <5>4. InStep'
          BY <4>1, <4>2, <5>2, <5>3 DEF InStep, DevicesShowInfo
        <5> QED
          BY <4>2, <5>2, <5>4 DEF NtpInv
      <4> QED
        BY <4>1, <4>3, <4>4, <4>5 DEF HostOnWire
    <3> QED
      BY <2>3, <3>1 DEF N!ReadHost, N!GiveUp, N!Report, NtpInv
  <2>4. CASE N!TimeOut
    <3>1. n_faults = Faults => n_wire # <<>>
      <4>1. n_faults = Faults => n_wire = <<N!Status(n_answer)>>
        BY <2>4 DEF N!TimeOut, NtpInv, InStep
      <4> QED
        BY <4>1
    <3>2. n_faults' \in 0..Faults /\ n_faults' # Faults
      BY <2>4, <3>1 DEF N!TimeOut, NtpInv
    <3> QED
      BY <2>4, <3>2 DEF N!TimeOut, N!GiveUp, NtpInv
  <2>5. CASE N!SocketFails
    BY <2>5 DEF N!SocketFails, N!GiveUp, NtpInv
  <2>6. CASE N!ServerChanges
    BY <2>6 DEF N!ServerChanges, NtpInv, InStep, DevicesShowInfo, HostOnWire
  <2>7. CASE N!Lose
    BY <2>7 DEF N!Lose, NtpInv
  <2>8. CASE UNCHANGED N!vars
    BY <2>8 DEF N!vars, NtpInv, InStep, DevicesShowInfo, HostOnWire
  <2> QED
    BY <2>1, <2>2, <2>3, <2>4, <2>5, <2>6, <2>7, <2>8 DEF N!Next, N!Reads
<1>3. N!Init => Typed
  BY DEF N!Init
<1>4. Typed /\ [N!Next]_(N!vars) => Typed'
  BY DEF N!Next, N!AskForSynced, N!Reads, N!ReadStatus, N!ReadHost, N!TimeOut, N!SocketFails,
     N!ServerChanges, N!Lose, N!AskForHost, N!GiveUp, N!Report, N!vars
<1>5. NtpInv /\ Typed => FollowsServer
  <2> SUFFICES ASSUME InStep, n_phase = "waiting", n_info # N!Unmatched, n_state \in BOOLEAN
               PROVE  /\ n_state = (n_answer # N!None)
                      /\ n_state => n_source = n_answer
    BY DEF NtpInv, FollowsServer, N!FollowsServer
  <2>1. n_info = n_answer /\ n_answer \in Hosts
    BY DEF InStep
  <2>2. n_state <=> n_answer # N!None
    BY <2>1 DEF InStep, DevicesShowInfo
  <2>3. n_state => n_source = n_answer
    BY <2>1 DEF InStep, DevicesShowInfo
  <2> QED
    BY <2>2, <2>3
<1> QED
  BY <1>1, <1>2, <1>3, <1>4, <1>5, PTL

-----------------------------------------------------------------------------
(* The map.                                                                *)

\* A configuration has ranges of numbers.
LEMMA ConfigTyped ==
  ASSUME NEW cfg \in M!Configs
  PROVE  \E n \in Nat :
           /\ cfg \in [1..n -> M!Entry] /\ DOMAIN cfg = 1..n
           /\ IsFiniteSet(DOMAIN cfg) /\ Cardinality(DOMAIN cfg) = n
           /\ \A i \in 1..n : cfg[i].start \in Int /\ M!EndOf(cfg[i]) \in Int
<1>1. PICK n \in 0..Ranges : cfg \in [1..n -> M!Entry]
  BY DEF M!Configs
<1>2. n \in Nat
  BY MapAssumption
<1>3. IsFiniteSet(1..n) /\ Cardinality(1..n) = n
  BY <1>2, FS_Interval
<1>4. \A e \in M!Entry : e.start \in Int /\ M!EndOf(e) \in Int
  BY MapAssumption DEF M!Entry, M!EndOf
<1> QED
  BY <1>1, <1>2, <1>3, <1>4

\* There is a way to sort the ranges: by how many are not after them.
LEMMA SortExists ==
  ASSUME NEW cfg \in M!Configs, NEW n \in Nat, cfg \in [1..n -> M!Entry]
  PROVE  \E s \in [1..n -> 1..n] : \A a, b \in 1..n : a < b => M!Precedes(cfg, s[a], s[b])
<1> DEFINE D == 1..n
           Upto(i) == {j \in D : j = i \/ M!Precedes(cfg, j, i)}
           r == [i \in D |-> Cardinality(Upto(i))]
           q == [k \in D |-> CHOOSE i \in D : r[i] = k]
<1>1. IsFiniteSet(D) /\ Cardinality(D) = n
  BY FS_Interval
<1>2. \A i \in D : cfg[i].start \in Int
  BY MapAssumption DEF M!Entry
<1>3. ASSUME NEW i \in D
      PROVE  r[i] \in D
  <2>1. IsFiniteSet(Upto(i)) /\ Cardinality(Upto(i)) <= n
    BY <1>1, FS_Subset
  <2>2. Upto(i) # {}
    OBVIOUS
  <2> HIDE DEF Upto
  <2>3. Cardinality(Upto(i)) \in Nat /\ Cardinality(Upto(i)) # 0
    BY <2>1, <2>2, FS_CardinalityType, FS_EmptySet
  <2> QED
    BY <2>1, <2>3
<1>4. ASSUME NEW i \in D, NEW j \in D, M!Precedes(cfg, i, j)
      PROVE  r[i] < r[j]
  <2>1. Upto(i) \subseteq Upto(j)
    BY <1>2, <1>4 DEF M!Precedes
  <2>2. j \in Upto(j) /\ j \notin Upto(i)
    BY <1>2, <1>4 DEF M!Precedes
  <2>3. IsFiniteSet(Upto(j))
    BY <1>1, FS_Subset
  <2>4. r[i] = Cardinality(Upto(i)) /\ r[j] = Cardinality(Upto(j))
    OBVIOUS
  <2>5. r[i] \in Int /\ r[j] \in Int
    BY <1>3
  <2> HIDE DEF Upto, r
  <2>6. Cardinality(Upto(i)) <= Cardinality(Upto(j)) /\ Cardinality(Upto(i)) # Cardinality(Upto(j))
    BY <2>1, <2>2, <2>3, FS_Subset
  <2> QED
    BY <2>4, <2>5, <2>6
<1>5. \A i, j \in D : i # j => M!Precedes(cfg, i, j) \/ M!Precedes(cfg, j, i)
  BY <1>2 DEF M!Precedes
<1>6. r \in Injection(D, D)
  <2>1. r \in [D -> D]
    BY <1>3
  <2>2. \A i, j \in D : r[i] = r[j] => i = j
    <3> SUFFICES ASSUME NEW i \in D, NEW j \in D, i # j
                 PROVE  r[i] # r[j]
      OBVIOUS
    <3>1. r[i] < r[j] \/ r[j] < r[i]
      BY <1>4, <1>5
    <3>2. r[i] \in Int /\ r[j] \in Int
      BY <1>3
    <3> HIDE DEF r
    <3> QED
      BY <3>1, <3>2
  <2> HIDE DEF r
  <2> QED
    BY <2>1, <2>2, Fun_IsInj
<1> HIDE DEF r
<1>7. \A k \in D : \E i \in D : r[i] = k
  <2>1. r \in Surjection(D, D)
    BY <1>1, <1>6, FS_Injection
  <2> QED
    BY <2>1 DEF Surjection
<1>8. \A k \in D : q[k] \in D /\ r[q[k]] = k
  BY <1>7
<1> HIDE DEF q
<1>9. q \in [D -> D]
  BY <1>8 DEF q
<1>10. ASSUME NEW j \in D, NEW k \in D, j < k
       PROVE  M!Precedes(cfg, q[j], q[k])
  <2>1. q[j] \in D /\ q[k] \in D /\ r[q[j]] = j /\ r[q[k]] = k
    BY <1>8
  <2>2. ~ (k < j) /\ q[j] # q[k]
    BY <1>10, <2>1
  <2>3. ~ M!Precedes(cfg, q[k], q[j])
    BY <1>4, <2>1, <2>2
  <2> QED
    BY <1>5, <2>1, <2>2, <2>3
<1> QED
  BY <1>9, <1>10

\* So the sorted positions are all of them, each once.
LEMMA SortedAreAll ==
  ASSUME NEW cfg \in M!Configs, NEW n \in Nat, cfg \in [1..n -> M!Entry]
  PROVE  /\ M!SortedPositions(cfg) \in [1..n -> 1..n]
         /\ Len(M!SortedPositions(cfg)) = n
         /\ \A i \in 1..n : \E k \in 1..n : M!SortedPositions(cfg)[k] = i
<1> DEFINE s == M!SortedPositions(cfg)
<1>1. IsFiniteSet(1..n) /\ Cardinality(1..n) = n /\ DOMAIN cfg = 1..n
  BY FS_Interval
<1>2. s \in [1..n -> 1..n] /\ \A a, b \in 1..n : a < b => M!Precedes(cfg, s[a], s[b])
  BY <1>1, SortExists DEF M!SortedPositions
<1>3. s \in [1..n -> 1..n] /\ \A a, b \in 1..n : a # b => s[a] # s[b]
  <2>1. \A i \in 1..n : ~ M!Precedes(cfg, i, i)
    <3>1. \A i \in 1..n : cfg[i].start \in Int
      BY MapAssumption DEF M!Entry
    <3> QED
      BY <3>1 DEF M!Precedes
  <2>2. \A a, b \in 1..n : a < b => s[a] # s[b]
    BY <1>2, <2>1
  <2> HIDE DEF s
  <2> QED
    BY <1>2, <2>2
<1> HIDE DEF s
<1>4. s \in Injection(1..n, 1..n)
  BY <1>3, Fun_IsInj
<1>5. \A i \in 1..n : \E k \in 1..n : s[k] = i
  <2>1. s \in Surjection(1..n, 1..n)
    BY <1>1, <1>4, FS_Injection
  <2> QED
    BY <2>1 DEF Surjection
<1>6. Len(s) = n
  BY <1>3
<1> QED
  BY <1>3, <1>5, <1>6 DEF s

\* The ranges of an accepted configuration that are written from low to high do not meet.
LEMMA RangesAreApart ==
  ASSUME NEW cfg \in M!Configs, NEW n \in Nat, cfg \in [1..n -> M!Entry], M!Parses(cfg),
         \A i \in 1..n : M!Lower(cfg[i]) = cfg[i].start
  PROVE  \A a, b \in 1..n : a < b =>
           M!Upper(cfg[M!SortedPositions(cfg)[a]]) < M!Lower(cfg[M!SortedPositions(cfg)[b]])
<1> DEFINE s == M!SortedPositions(cfg)
           lo(a) == M!Lower(cfg[s[a]])
           up(a) == M!Upper(cfg[s[a]])
           far == {d \in Nat : \E a, b \in 1..n : b = a + d /\ 0 < d /\ ~(up(a) < lo(b))}
<1>1. s \in [1..n -> 1..n] /\ Len(s) = n
  BY SortedAreAll
<1>2. \A i \in 1..n : cfg[i].start \in Int /\ M!EndOf(cfg[i]) \in Int
  BY MapAssumption DEF M!Entry, M!EndOf
<1>3. \A a \in 1..n : lo(a) \in Int /\ up(a) \in Int /\ lo(a) <= up(a)
  BY <1>1, <1>2 DEF M!Lower, M!Upper
<1>4. \A a \in 1..(n - 1) : up(a) < lo(a + 1)
  <2> SUFFICES ASSUME NEW a \in 1..(n - 1) PROVE up(a) < lo(a + 1)
    OBVIOUS
  <2>1. a \in 1..n /\ a + 1 \in 1..n
    OBVIOUS
  <2>2. M!EndOf(cfg[s[a]]) < cfg[s[a + 1]].start
    BY <1>1 DEF M!Parses
  <2>3. s[a] \in 1..n /\ s[a + 1] \in 1..n
    BY <1>1, <2>1
  <2>4. up(a) = M!EndOf(cfg[s[a]])
    BY <1>2, <2>3 DEF M!Upper, M!Lower
  <2>5. lo(a + 1) = cfg[s[a + 1]].start
    BY <2>3
  <2> HIDE DEF s, lo, up
  <2> QED
    BY <2>2, <2>4, <2>5
<1> HIDE DEF s, lo, up
<1>5. far = {}
  <2> SUFFICES ASSUME far # {} PROVE FALSE
    OBVIOUS
  <2>1. PICK d \in far : \A e \in far : d <= e
    BY LeastOf
  <2>2. PICK a \in 1..n, b \in 1..n : b = a + d /\ 0 < d /\ ~(up(a) < lo(b))
    BY <2>1
  <2>3. d # 1
    BY <1>4, <2>2
  <2>4. d \in Nat /\ d - 1 \in Nat /\ 0 < d - 1 /\ b - 1 = a + (d - 1) /\ b - 1 \in 1..(n - 1)
    BY <2>1, <2>2, <2>3
  <2>7. d - 1 \notin far
    <3> HIDE DEF far
    <3> QED
      BY <2>1, <2>4
  <2>8. b - 1 \in 1..n /\ b = (b - 1) + 1
    BY <2>4
  <2>5. up(a) < lo(b - 1)
    BY <2>4, <2>7, <2>8
  <2>6. up(b - 1) < lo(b)
    BY <1>4, <2>4, <2>8
  <2>9. up(a) \in Int /\ lo(b - 1) \in Int /\ up(b - 1) \in Int /\ lo(b) \in Int /\ lo(b - 1) <= up(b - 1)
    BY <1>3, <2>8
  <2> QED
    BY <2>2, <2>5, <2>6, <2>9
<1>6. ASSUME NEW a \in 1..n, NEW b \in 1..n, a < b
      PROVE  up(a) < lo(b)
  <2>1. b - a \in Nat /\ b = a + (b - a) /\ 0 < b - a
    BY <1>6
  <2> QED
    BY <1>5, <2>1
<1> QED
  BY <1>6 DEF lo, up, s

\* The calls that a call of the search makes have less to search.
SmallerCalls(lo, hi) ==
  LET mid == (lo + hi) \div 2 IN {<<lo, mid - 1>>, <<mid + 1, hi>>}

\* The middle of two numbers lies between them.
LEMMA MiddleIsBetween ==
  ASSUME NEW lo \in Int, NEW hi \in Int, lo <= hi
  PROVE  (lo + hi) \div 2 \in lo..hi
OBVIOUS

\* They are calls of the search, with fewer places between theirs.
LEMMA SmallerCallsAre ==
  ASSUME NEW n \in Nat, NEW lo \in 1..(n + 1), NEW hi \in 0..n, lo <= hi,
         NEW between \in SmallerCalls(lo, hi)
  PROVE  /\ between \in (1..(n + 1)) \X (0..n)
         /\ between[2] - between[1] + 1 <= hi - lo
<1> DEFINE mid == (lo + hi) \div 2
<1>1. mid \in lo..hi
  BY MiddleIsBetween
<1>2. between = <<lo, mid - 1>> \/ between = <<mid + 1, hi>>
  BY DEF SmallerCalls
<1> HIDE DEF mid
<1> QED
  BY <1>1, <1>2

\* A call with no place between its two returns the default,
LEMMA StepOfNone ==
  ASSUME NEW lo \in Int, NEW hi \in Int, NEW s, NEW idx, NEW g, lo > hi
  PROVE  M!SearchStep(g, s, idx, <<lo, hi>>) = M!Default
BY DEF M!SearchStep

\* What a step does where the range in the middle is m.
StepsAt(lo, hi, m, s, idx, g) ==
  /\ idx < M!Lower(m_entries[s[m]]) =>
       M!SearchStep(g, s, idx, <<lo, hi>>) = g[<<lo, m - 1>>]
  /\ ~ (idx < M!Lower(m_entries[s[m]])) /\ idx > M!Upper(m_entries[s[m]]) =>
       M!SearchStep(g, s, idx, <<lo, hi>>) = g[<<m + 1, hi>>]

\* and one with some looks at the middle one.
LEMMA StepOfSome ==
  ASSUME NEW lo \in Int, NEW hi \in Int, NEW s, NEW idx \in Int, NEW g, lo <= hi,
         NEW m, m = (lo + hi) \div 2,
         M!Lower(m_entries[s[m]]) \in Int, M!Upper(m_entries[s[m]]) \in Int,
         M!Lower(m_entries[s[m]]) <= M!Upper(m_entries[s[m]])
  PROVE  StepsAt(lo, hi, m, s, idx, g)
<1>1. ASSUME idx < M!Lower(m_entries[s[m]])
      PROVE  M!SearchStep(g, s, idx, <<lo, hi>>) = g[<<lo, m - 1>>]
  BY <1>1 DEF M!SearchStep
<1>2. ASSUME ~ (idx < M!Lower(m_entries[s[m]])), idx > M!Upper(m_entries[s[m]])
      PROVE  M!SearchStep(g, s, idx, <<lo, hi>>) = g[<<m + 1, hi>>]
  BY <1>2 DEF M!SearchStep
<1> QED
  BY <1>1, <1>2 DEF StepsAt

\* So a step of it is the same for functions that agree on them.
LEMMA SameStep ==
  ASSUME NEW n \in Nat, NEW lo \in 1..(n + 1), NEW hi \in 0..n, NEW s, NEW idx,
         NEW g, NEW h, lo <= hi => \A between \in SmallerCalls(lo, hi) : g[between] = h[between]
  PROVE  M!SearchStep(g, s, idx, <<lo, hi>>) = M!SearchStep(h, s, idx, <<lo, hi>>)
<1>1. CASE lo > hi
  BY <1>1 DEF M!SearchStep
<1>2. CASE lo <= hi
  <2> DEFINE mid == (lo + hi) \div 2
  <2>1. g[<<lo, mid - 1>>] = h[<<lo, mid - 1>>] /\ g[<<mid + 1, hi>>] = h[<<mid + 1, hi>>]
    BY <1>2 DEF SmallerCalls
  <2> QED
    BY <1>2, <2>1 DEF M!SearchStep
<1> QED
  BY <1>1, <1>2

\* The search computes what its definition says.
LEMMA SearchRecursion ==
  ASSUME NEW s, NEW idx, Len(s) \in Nat
  PROVE  \A lo \in 1..(Len(s) + 1), hi \in 0..Len(s) :
           M!Search(s, idx)[<<lo, hi>>] = M!SearchStep(M!Search(s, idx), s, idx, <<lo, hi>>)
<1> DEFINE calls == (1..(Len(s) + 1)) \X (0..Len(s))
           Is(f) == f = [between \in calls |-> M!SearchStep(f, s, idx, between)]
           Upto(g, k) == \A lo \in 1..(Len(s) + 1), hi \in 0..Len(s) :
                           hi - lo + 1 <= k => g[<<lo, hi>>] = M!SearchStep(g, s, idx, <<lo, hi>>)
           bad == {k \in Nat : \A g : ~ Upto(g, k)}
<1>1. M!Search(s, idx) = CHOOSE f : Is(f)
  BY DEF M!Search
<1> HIDE DEF Is
<1> DEFINE n == Len(s)
<1> HIDE DEF n
<1>0. n \in Nat /\ calls = (1..(n + 1)) \X (0..n)
  BY DEF n
<1>7. \A g, k : Upto(g, k) <=> \A lo \in 1..(n + 1), hi \in 0..n :
                 hi - lo + 1 <= k => g[<<lo, hi>>] = M!SearchStep(g, s, idx, <<lo, hi>>)
  BY DEF n
<1> HIDE DEF calls, Upto
<1>2. \A k \in Nat : \E g : Upto(g, k)
  <2> SUFFICES ASSUME bad # {} PROVE FALSE
    OBVIOUS
  <2>1. PICK k \in bad : \A j \in bad : k <= j
    BY LeastOf
  <2>2. k # 0
    <3> SUFFICES ASSUME k = 0 PROVE FALSE
      OBVIOUS
    <3> DEFINE g == [between \in calls |-> M!Default]
    <3>1. Upto(g, 0)
      <4> SUFFICES ASSUME NEW lo \in 1..(n + 1), NEW hi \in 0..n, hi - lo + 1 <= 0
                   PROVE  g[<<lo, hi>>] = M!SearchStep(g, s, idx, <<lo, hi>>)
        BY <1>7
      <4>1. lo > hi /\ <<lo, hi>> \in calls
        BY <1>0
      <4>2. M!SearchStep(g, s, idx, <<lo, hi>>) = M!Default
        BY <1>0, <4>1, StepOfNone
      <4> QED
        BY <4>1, <4>2
    <3> HIDE DEF g
    <3> QED
      BY <2>1, <3>1
  <2>3. k \in Nat /\ k - 1 \in Nat /\ k - 1 \notin bad
    <3>1. k \in Nat /\ k - 1 \in Nat
      BY <2>1, <2>2
    <3> HIDE DEF bad
    <3> QED
      BY <2>1, <3>1
  <2>4. PICK g : Upto(g, k - 1)
    BY <2>3
  <2> DEFINE h == [between \in calls |-> M!SearchStep(g, s, idx, between)]
  <2>5. \A between \in calls : h[between] = M!SearchStep(g, s, idx, between)
    OBVIOUS
  <2> HIDE DEF h
  <2>6. ASSUME NEW lo \in 1..(n + 1), NEW hi \in 0..n, hi - lo + 1 <= k - 1
        PROVE  h[<<lo, hi>>] = g[<<lo, hi>>]
    BY <1>0, <1>7, <2>4, <2>5, <2>6
  <2>7. ASSUME NEW lo \in 1..(n + 1), NEW hi \in 0..n, hi - lo + 1 <= k
        PROVE  h[<<lo, hi>>] = M!SearchStep(h, s, idx, <<lo, hi>>)
    <3>1. ASSUME lo <= hi, NEW between \in SmallerCalls(lo, hi)
          PROVE  g[between] = h[between]
      <4>1. between \in (1..(n + 1)) \X (0..n) /\ between[2] - between[1] + 1 <= hi - lo
        BY <1>0, <3>1, SmallerCallsAre
      <4>2. PICK from \in 1..(n + 1), to \in 0..n : between = <<from, to>>
        BY <4>1
      <4>3. to - from + 1 <= k - 1
        BY <1>0, <2>3, <2>7, <4>1, <4>2
      <4> QED
        BY <2>6, <4>2, <4>3
    <3>2. lo <= hi => \A between \in SmallerCalls(lo, hi) : g[between] = h[between]
      BY <3>1
    <3>3. M!SearchStep(g, s, idx, <<lo, hi>>) = M!SearchStep(h, s, idx, <<lo, hi>>)
      BY <1>0, <3>2, SameStep
    <3> QED
      BY <1>0, <2>5, <3>3
  <2>8. Upto(h, k)
    BY <1>7, <2>7
  <2> QED
    BY <2>1, <2>8
<1>3. PICK g : Upto(g, n)
  BY <1>0, <1>2
<1> DEFINE f == [between \in calls |-> g[between]]
<1>4. ASSUME NEW lo \in 1..(n + 1), NEW hi \in 0..n
      PROVE  f[<<lo, hi>>] = M!SearchStep(f, s, idx, <<lo, hi>>)
  <2>1. ASSUME lo <= hi, NEW between \in SmallerCalls(lo, hi)
        PROVE  g[between] = f[between]
    BY <1>0, <2>1, SmallerCallsAre
  <2> HIDE DEF f
  <2>2. lo <= hi => \A between \in SmallerCalls(lo, hi) : g[between] = f[between]
    BY <2>1
  <2>3. M!SearchStep(g, s, idx, <<lo, hi>>) = M!SearchStep(f, s, idx, <<lo, hi>>)
    BY <1>0, <2>2, SameStep
  <2>4. hi - lo + 1 <= n
    BY <1>0
  <2>5. g[<<lo, hi>>] = M!SearchStep(g, s, idx, <<lo, hi>>)
    BY <1>3, <1>7, <2>4
  <2>6. f[<<lo, hi>>] = g[<<lo, hi>>]
    BY <1>0 DEF f
  <2> QED
    BY <2>3, <2>5, <2>6
<1>5. Is(f)
  <2>1. ASSUME NEW between \in calls
        PROVE  f[between] = M!SearchStep(f, s, idx, between)
    <3>1. PICK lo \in 1..(n + 1), hi \in 0..n : between = <<lo, hi>>
      BY <1>0
    <3> HIDE DEF f
    <3> QED
      BY <1>4, <3>1
  <2>2. f = [between \in calls |-> f[between]]
    OBVIOUS
  <2> HIDE DEF f
  <2> QED
    BY <2>1, <2>2 DEF Is
<1>6. Is(M!Search(s, idx))
  <2> HIDE DEF f
  <2> QED
    BY <1>1, <1>5
<1>8. M!Search(s, idx) = [between \in calls |-> M!SearchStep(M!Search(s, idx), s, idx, between)]
  BY <1>6 DEF Is
<1>9. ASSUME NEW lo \in 1..(n + 1), NEW hi \in 0..n
      PROVE  M!Search(s, idx)[<<lo, hi>>] = M!SearchStep(M!Search(s, idx), s, idx, <<lo, hi>>)
  <2>1. <<lo, hi>> \in calls
    BY <1>0
  <2> QED
    BY <1>8, <2>1
<1> QED
  BY <1>9 DEF n

\* What a call of the search returns: the range between its two places that has
\* the index, or the default if there is none.
Finds(s, idx, lo, hi) ==
  LET found == M!Search(s, idx)[<<lo, hi>>] IN
  \/ found = M!Default /\ \A j \in lo..hi : ~ M!Has(s[j], idx)
  \/ \E j \in lo..hi : found = s[j] /\ M!Has(s[j], idx)

\* Of sorted ranges that do not meet, the search finds the one that has the index
\* (the loop of map_to).
LEMMA SearchFinds ==
  ASSUME NEW n \in Nat, NEW s \in [1..n -> 1..n], Len(s) = n, NEW idx \in Int,
         \A i \in 1..n : M!Lower(m_entries[i]) \in Int /\ M!Upper(m_entries[i]) \in Int
                           /\ M!Lower(m_entries[i]) <= M!Upper(m_entries[i]),
         \A a, b \in 1..n : a < b => M!Upper(m_entries[s[a]]) < M!Lower(m_entries[s[b]])
  PROVE  \A lo \in 1..(n + 1), hi \in 0..n : Finds(s, idx, lo, hi)
<1> DEFINE right(k) == \A lo \in 1..(n + 1), hi \in 0..n : hi - lo + 1 <= k => Finds(s, idx, lo, hi)
           bad == {k \in Nat : ~ right(k)}
           low(j) == M!Lower(m_entries[s[j]])
           up(j) == M!Upper(m_entries[s[j]])
<1>1. \A j \in 1..n : low(j) \in Int /\ up(j) \in Int /\ low(j) <= up(j)
  OBVIOUS
<1>2. \A j \in 1..n : M!Has(s[j], idx) <=> low(j) <= idx /\ idx <= up(j)
  BY DEF M!Has
<1>3. \A a, b \in 1..n : a < b => up(a) < low(b)
  OBVIOUS
<1>4. ASSUME NEW lo \in 1..(n + 1), NEW hi \in 0..n, lo > hi
      PROVE  Finds(s, idx, lo, hi)
  <2>1. M!Search(s, idx)[<<lo, hi>>] = M!Default
    <3>1. M!Search(s, idx)[<<lo, hi>>] = M!SearchStep(M!Search(s, idx), s, idx, <<lo, hi>>)
      BY SearchRecursion
    <3> QED
      BY <1>4, <3>1, StepOfNone
  <2> QED
    BY <1>4, <2>1 DEF Finds
<1>5. ASSUME NEW lo \in 1..(n + 1), NEW hi \in 0..n, lo <= hi, right(hi - lo)
      PROVE  Finds(s, idx, lo, hi)
  <2> DEFINE mid == (lo + hi) \div 2
             found(l, h) == M!Search(s, idx)[<<l, h>>]
  <2>1. mid \in lo..hi /\ mid \in 1..n
    BY <1>5, MiddleIsBetween
  <2>2. found(lo, hi) = M!SearchStep(M!Search(s, idx), s, idx, <<lo, hi>>)
    BY SearchRecursion
  <2>0. StepsAt(lo, hi, mid, s, idx, M!Search(s, idx))
    <3> DEFINE g == M!Search(s, idx)
               m == mid
    <3>1. m = (lo + hi) \div 2
      OBVIOUS
    <3>2. /\ M!Lower(m_entries[s[m]]) \in Int /\ M!Upper(m_entries[s[m]]) \in Int
          /\ M!Lower(m_entries[s[m]]) <= M!Upper(m_entries[s[m]])
      BY <1>1, <2>1
    <3>3. lo \in Int /\ hi \in Int /\ lo <= hi
      BY <1>5
    <3> HIDE DEF low, up, right, mid, found, m, g
    <3>4. StepsAt(lo, hi, m, s, idx, g)
      BY <3>1, <3>2, <3>3, StepOfSome
    <3> QED
      BY <3>4 DEF m, g
  <2>3. CASE idx < low(mid)
    <3>1. found(lo, hi) = found(lo, mid - 1)
      <4>1. M!SearchStep(M!Search(s, idx), s, idx, <<lo, hi>>) = M!Search(s, idx)[<<lo, mid - 1>>]
        BY <2>0, <2>3 DEF StepsAt
      <4> QED
        BY <2>2, <4>1
    <3> HIDE DEF low, up, mid, right
    <3>2. lo \in 1..(n + 1) /\ mid - 1 \in 0..n /\ (mid - 1) - lo + 1 <= hi - lo
      BY <1>5, <2>1
    <3>3. Finds(s, idx, lo, mid - 1)
      BY <1>5, <3>2 DEF right
    <3>4. \A j \in mid..hi : ~ M!Has(s[j], idx)
      <4> SUFFICES ASSUME NEW j \in mid..hi PROVE ~ M!Has(s[j], idx)
        OBVIOUS
      <4>1. j \in 1..n
        BY <2>1
      <4>2. j = mid \/ up(mid) < low(j)
        BY <1>3, <2>1, <4>1
      <4>3. low(mid) \in Int /\ up(mid) \in Int /\ low(mid) <= up(mid) /\ low(j) \in Int
        BY <1>1, <2>1, <4>1
      <4>4. idx < low(j)
        BY <2>3, <4>2, <4>3
      <4> QED
        BY <1>2, <4>1, <4>3, <4>4
    <3>5. \A j \in lo..hi : j \in lo..(mid - 1) \/ j \in mid..hi
      BY <2>1
    <3>6. \A j \in lo..(mid - 1) : j \in lo..hi
      BY <2>1
    <3> QED
      BY <3>1, <3>3, <3>4, <3>5, <3>6 DEF Finds
  <2>4. CASE idx > up(mid)
    <3>0. ~ (idx < low(mid))
      BY <1>1, <2>1, <2>4
    <3>1. found(lo, hi) = found(mid + 1, hi)
      <4>1. M!SearchStep(M!Search(s, idx), s, idx, <<lo, hi>>) = M!Search(s, idx)[<<mid + 1, hi>>]
        BY <2>0, <2>4, <3>0 DEF StepsAt
      <4> QED
        BY <2>2, <4>1
    <3> HIDE DEF low, up, mid, right
    <3>2. mid + 1 \in 1..(n + 1) /\ hi \in 0..n /\ hi - (mid + 1) + 1 <= hi - lo
      BY <1>5, <2>1
    <3>3. Finds(s, idx, mid + 1, hi)
      BY <1>5, <3>2 DEF right
    <3>4. \A j \in lo..mid : ~ M!Has(s[j], idx)
      <4> SUFFICES ASSUME NEW j \in lo..mid PROVE ~ M!Has(s[j], idx)
        OBVIOUS
      <4>1. j \in 1..n
        BY <2>1
      <4>2. j = mid \/ up(j) < low(mid)
        BY <1>3, <2>1, <4>1
      <4>3. low(mid) \in Int /\ up(mid) \in Int /\ low(mid) <= up(mid) /\ up(j) \in Int
        BY <1>1, <2>1, <4>1
      <4>4. up(j) < idx
        BY <2>4, <4>2, <4>3
      <4> QED
        BY <1>2, <4>1, <4>3, <4>4
    <3>5. \A j \in lo..hi : j \in lo..mid \/ j \in (mid + 1)..hi
      BY <2>1
    <3>6. \A j \in (mid + 1)..hi : j \in lo..hi
      BY <2>1
    <3> QED
      BY <3>1, <3>3, <3>4, <3>5, <3>6 DEF Finds
  <2>5. CASE ~ (idx < low(mid)) /\ ~ (idx > up(mid))
    <3>1. found(lo, hi) = s[mid]
      BY <1>5, <2>2, <2>5 DEF M!SearchStep
    <3> HIDE DEF low, up, mid
    <3>2. low(mid) \in Int /\ up(mid) \in Int
      BY <1>1, <2>1
    <3>3. low(mid) <= idx /\ idx <= up(mid)
      BY <2>5, <3>2
    <3>4. M!Has(s[mid], idx)
      BY <1>2, <2>1, <3>3
    <3> QED
      BY <2>1, <3>1, <3>4 DEF Finds
  <2> QED
    BY <2>3, <2>4, <2>5
<1> HIDE DEF low, up
<1>6. bad = {}
  <2> SUFFICES ASSUME bad # {} PROVE FALSE
    OBVIOUS
  <2>1. PICK k \in bad : \A j \in bad : k <= j
    <3> HIDE DEF bad
    <3>1. bad \subseteq Nat
      BY DEF bad
    <3> QED
      BY <3>1, LeastOf
  <2>2. PICK lo \in 1..(n + 1), hi \in 0..n : hi - lo + 1 <= k /\ ~ Finds(s, idx, lo, hi)
    BY <2>1
  <2>3. lo <= hi
    BY <1>4, <2>2
  <2>4. hi - lo \in Nat /\ hi - lo < k /\ k \in Nat
    BY <2>1, <2>2, <2>3
  <2>5. right(hi - lo)
    <3>1. hi - lo \notin bad
      <4> HIDE DEF bad
      <4> QED
        BY <2>1, <2>4
    <3> QED
      BY <2>4, <3>1
  <2> QED
    BY <1>5, <2>2, <2>3, <2>5
<1>7. right(n)
  BY <1>6
<1> QED
  BY <1>7

\* The map's output is always the one of the search for its index.
MapInv ==
  /\ m_entries \in M!Configs /\ M!Parses(m_entries)
  /\ m_index \in Indices \cup {Absent}
  /\ m_index = Absent => m_output = M!Default
  /\ \A i \in Indices : m_index = i => m_output = M!MapTo(i)

\* What the search finds is what MapsToRange asks for.
LEMMA MapInvFinds == MapInv => MapsToRange
<1> SUFFICES ASSUME MapInv, \A i \in DOMAIN m_entries : M!Lower(m_entries[i]) = m_entries[i].start
             PROVE  {i \in DOMAIN m_entries : m_index # Absent /\ M!Has(i, m_index)}
                      = (IF m_output = M!Default THEN {} ELSE {m_output})
  BY DEF MapsToRange, M!MapsToRange
<1>1. PICK n \in Nat : m_entries \in [1..n -> M!Entry] /\ DOMAIN m_entries = 1..n
  BY ConfigTyped DEF MapInv
<1> DEFINE s == M!SortedPositions(m_entries)
<1>2. s \in [1..n -> 1..n] /\ Len(s) = n /\ \A i \in 1..n : \E k \in 1..n : s[k] = i
  BY <1>1, SortedAreAll DEF MapInv
<1>3. \A i \in 1..n : m_entries[i].start \in Int /\ M!EndOf(m_entries[i]) \in Int
  BY <1>1, MapAssumption DEF M!Entry, M!EndOf
<1>4. \A i \in 1..n : /\ M!Lower(m_entries[i]) \in Int /\ M!Upper(m_entries[i]) \in Int
                      /\ M!Lower(m_entries[i]) <= M!Upper(m_entries[i])
  BY <1>3 DEF M!Lower, M!Upper
<1>5. \A a, b \in 1..n : a < b => M!Upper(m_entries[s[a]]) < M!Lower(m_entries[s[b]])
  BY <1>1, RangesAreApart DEF MapInv
<1> HIDE DEF s
<1>6. CASE m_index = Absent
  BY <1>6 DEF MapInv
<1>7. CASE m_index # Absent
  <2>1. m_index \in Int
    BY <1>7, MapAssumption DEF MapInv
  <2>2. m_output = M!Search(s, m_index)[<<1, n>>]
    BY <1>2, <1>7 DEF MapInv, M!MapTo, s
  <2>3. 1 \in 1..(n + 1) /\ n \in 0..n
    OBVIOUS
  <2>4. Finds(s, m_index, 1, n)
    BY <1>2, <1>4, <1>5, <2>1, <2>3, SearchFinds
  <2>5. CASE m_output = M!Default /\ \A j \in 1..n : ~ M!Has(s[j], m_index)
    BY <1>1, <1>2, <2>5
  <2>6. CASE \E j \in 1..n : m_output = s[j] /\ M!Has(s[j], m_index)
    <3>1. PICK j \in 1..n : m_output = s[j] /\ M!Has(s[j], m_index)
      BY <2>6
    <3>2. m_output # M!Default /\ m_output \in 1..n
      BY <1>2, <3>1 DEF M!Default
    <3>3. ASSUME NEW i \in 1..n, M!Has(i, m_index)
          PROVE  i = m_output
      <4>1. PICK k \in 1..n : s[k] = i
        BY <1>2
      <4>2. M!Lower(m_entries[s[k]]) <= m_index /\ m_index <= M!Upper(m_entries[s[k]])
        BY <3>3, <4>1 DEF M!Has
      <4>3. M!Lower(m_entries[s[j]]) <= m_index /\ m_index <= M!Upper(m_entries[s[j]])
        BY <3>1 DEF M!Has
      <4>4. s[k] \in 1..n /\ s[j] \in 1..n
        BY <1>2
      <4>5. ~ (k < j) /\ ~ (j < k)
        BY <1>4, <1>5, <2>1, <4>2, <4>3, <4>4
      <4> QED
        BY <3>1, <4>1, <4>5
    <3> QED
      BY <1>1, <1>7, <3>1, <3>2, <3>3
  <2> QED
    BY <2>2, <2>4, <2>5, <2>6 DEF Finds
<1> QED
  BY <1>6, <1>7

\* MapInv holds for every configuration that is accepted,
LEMMA InitMapInv == M!Init => MapInv
<1> SUFFICES ASSUME M!Init PROVE MapInv
  OBVIOUS
<1>1. ASSUME NEW i \in Indices, m_index = i
      PROVE  m_output = M!MapTo(i)
  <2>1. m_index # Absent
    BY <1>1, MapAssumption
  <2>2. m_output = M!MapTo(m_index)
    BY <2>1 DEF M!Init
  <2> QED
    BY <1>1, <2>2
<1> QED
  BY <1>1 DEF M!Init, MapInv

\* and a setting of the index keeps it.
LEMMA NextMapInv == MapInv /\ [M!Next]_(M!vars) => MapInv'
<1> SUFFICES ASSUME MapInv, [M!Next]_(M!vars) PROVE MapInv'
  OBVIOUS
<1>1. m_entries' = m_entries => \A j \in Indices : M!MapTo(j)' = M!MapTo(j)
  BY DEF M!MapTo, M!Search, M!SearchStep
<1>2. ASSUME NEW i \in Indices, M!SetIndex(i)
      PROVE  MapInv'
  <2>1. i # Absent /\ m_index' = i /\ m_output' = M!MapTo(i) /\ m_entries' = m_entries
    BY <1>2, MapAssumption DEF M!SetIndex
  <2>2. \A j \in Indices : m_index' = j => m_output' = M!MapTo(j)'
    BY <1>1, <2>1
  <2> QED
    BY <2>1, <2>2 DEF MapInv, M!Parses
<1>3. CASE UNCHANGED M!vars
  <2>1. m_index' = m_index /\ m_output' = m_output /\ m_entries' = m_entries
    BY <1>3 DEF M!vars
  <2>2. \A j \in Indices : m_index' = j => m_output' = M!MapTo(j)'
    BY <1>1, <2>1 DEF MapInv
  <2> QED
    BY <2>1, <2>2 DEF MapInv, M!Parses
<1> QED
  BY <1>2, <1>3 DEF M!Next

\* Of an accepted configuration whose ranges are written from low to high, the
\* map's output is the value of the one range that has its index (parse, map_to).
THEOREM MapFindsRange == M!Spec => []MapsToRange
BY InitMapInv, NextMapInv, MapInvFinds, PTL DEF M!Spec

-----------------------------------------------------------------------------
(* The bulb.  It uses its device as OverridableDevice is used, which needs   *)
(* that a reading is always a value: a bulb that is the device's "brightness" *)
(* has levels only, in the device and in the bulb, and a "color" colours.    *)

DeviceOfKind ==
  /\ state = "Unknown" \/ value \in Mine
  /\ state # "Overridden" \/ setting \in Mine
  /\ ask \in [Clients -> Mine \cup {WrongType, NoValue}]
  /\ handed = Device!Idle \/ handed.val \in Mine

BulbOfKind ==
  /\ kind \in {"brightness", "color"}
  /\ hw \in Bulbs /\ reading \in Bulbs
  /\ phase = "put" => asked \in (IF kind = "brightness" THEN ShownLevels ELSE Colors)

\* A reading of the device's kind, in each arm of report_update.
LEMMA ReadingKeepsKind ==
  ASSUME DeviceOfKind, NEW new \in Mine, Device!ReportUpdate(new), UNCHANGED kind
  PROVE  DeviceOfKind'
<1> USE DEF DeviceOfKind, Mine, Device!Become, Device!BecomeOverridden, Device!dev
<1>1. CASE Device!PollUnknown(new)         BY <1>1 DEF Device!ReportUpdate, Device!PollUnknown
<1>2. CASE Device!PollIgnored(new)         BY <1>2 DEF Device!ReportUpdate, Device!PollIgnored
<1>3. CASE Device!PollConfirms(new)        BY <1>3 DEF Device!ReportUpdate, Device!PollConfirms
<1>4. CASE Device!PollContradicts(new)     BY <1>4 DEF Device!ReportUpdate, Device!PollContradicts
<1>5. CASE Device!PollAnticipates(new)
  BY <1>5 DEF Device!ReportUpdate, Device!PollAnticipates, Device!Reply
<1>6. CASE Device!PollOverrides(new)       BY <1>6 DEF Device!ReportUpdate, Device!PollOverrides
<1>7. CASE Device!PollRestores(new)        BY <1>7 DEF Device!ReportUpdate, Device!PollRestores
<1>8. CASE Device!PollOverridesAgain(new)  BY <1>8 DEF Device!ReportUpdate, Device!PollOverridesAgain
<1> QED
  BY <1>1, <1>2, <1>3, <1>4, <1>5, <1>6, <1>7, <1>8 DEF Device!ReportUpdate

\* The device's own steps, and those of its clients.
LEMMA SettingKeepsKind ==
  ASSUME DeviceOfKind, UNCHANGED kind,
         \/ Returns \/ Receives \/ Device!ExpireOverride \/ Device!DriverReply \/ Device!Tick
         \/ \E c \in Clients, v \in Mine \cup {WrongType} : Device!SendSetting(c, v)
  PROVE  DeviceOfKind'
<1> USE DEF DeviceOfKind, Mine, Device!Become, Device!Idle, Device!dev, Device!Reply
<1>1. CASE Device!FinishReport
  BY <1>1 DEF Device!FinishReport
<1>2. CASE Device!ForwardSetting
  BY <1>2 DEF Device!ForwardSetting
<1>3. CASE Device!ReassertSetting
  BY <1>3 DEF Device!ReassertSetting
<1>4. ASSUME NEW c \in Clients, NEW v \in Values, Device!Yields(c, v)
      PROVE  v \in Mine /\ UNCHANGED handed
  BY <1>4, ValuesOfBulb DEF Device!Yields
<1>5. ASSUME NEW c \in Clients, NEW v \in Values, Device!TakeSetting(c, v)
      PROVE  DeviceOfKind'
  <2>1. v \in Mine /\ UNCHANGED handed
    BY <1>4, <1>5 DEF Device!TakeSetting
  <2> QED
    BY <1>5, <2>1 DEF Device!TakeSetting
<1>6. ASSUME NEW c \in Clients, NEW v \in Values, Device!TakeSameSetting(c, v)
      PROVE  DeviceOfKind'
  <2>1. v \in Mine /\ UNCHANGED handed
    BY <1>4, <1>6 DEF Device!TakeSameSetting
  <2> QED
    BY <1>6, <2>1 DEF Device!TakeSameSetting
<1>7. ASSUME NEW c \in Clients, NEW v \in Values, Device!StoreSetting(c, v)
      PROVE  DeviceOfKind'
  <2>1. v \in Mine /\ UNCHANGED handed
    BY <1>4, <1>7 DEF Device!StoreSetting
  <2> QED
    BY <1>7, <2>1 DEF Device!StoreSetting
<1>8. CASE Device!RejectWrongType
  BY <1>8 DEF Device!RejectWrongType
<1>9. CASE Device!ExpireOverride
  BY <1>9 DEF Device!ExpireOverride
<1>10. CASE Device!DriverReply
  BY <1>10 DEF Device!DriverReply
<1>11. CASE Device!Tick
  BY <1>11 DEF Device!Tick
<1>12. ASSUME NEW c \in Clients, NEW v \in Mine \cup {WrongType}, Device!SendSetting(c, v)
       PROVE  DeviceOfKind'
  BY <1>12 DEF Device!SendSetting
<1> QED
  BY <1>1, <1>2, <1>3, <1>5, <1>6, <1>7, <1>8, <1>9, <1>10, <1>11, <1>12
     DEF Returns, Receives, Device!Receive

\* What a bulb shows is of its device's kind.
LEMMA ShownIsMine ==
  ASSUME BulbOfKind
  PROVE  Shown(reading) \in Mine /\ Mine \subseteq Values
  BY ValuesOfBulb DEF BulbOfKind, Bulbs, ShownLevels, Mine, Shown

\* A bulb is never asked for, and never shows, what its device cannot hold.
LEMMA BulbKeepsKind ==
  DeviceOfKind /\ BulbOfKind /\ [Next]_vars => DeviceOfKind' /\ BulbOfKind'
<1> SUFFICES ASSUME DeviceOfKind, BulbOfKind, [Next]_vars
             PROVE  DeviceOfKind' /\ BulbOfKind'
  OBVIOUS
<1>1. CASE \/ NextSetting(Returns) \/ NextSetting(Receives) \/ NextSetting(Device!ExpireOverride)
           \/ Tick \/ \E c \in Clients, v \in Mine \cup {WrongType} : Send(c, v)
  <2>1. UNCHANGED bulb
    BY <1>1 DEF NextSetting, Tick, Send
  <2>2. DeviceOfKind'
    BY <1>1, <2>1, SettingKeepsKind DEF NextSetting, Tick, Send, bulb
  <2> QED
    BY <2>1, <2>2 DEF bulb, BulbOfKind, Bulbs, Mine
<1>2. CASE TakeCommand
  <2>1. DeviceOfKind'
    BY <1>2, SettingKeepsKind DEF TakeCommand
  <2>2. handed.val \in Mine
    BY <1>2 DEF TakeCommand, Device!DriverReply, DeviceOfKind
  <2>3. Clamped(handed.val) \in (IF kind = "brightness" THEN ShownLevels ELSE Colors)
    BY <2>2, ValuesOfBulb DEF Clamped, ShownLevels, Mine
  <2> QED
    BY <1>2, <2>1, <2>3 DEF TakeCommand, BulbOfKind, Bulbs
<1>3. CASE Put
  <2>1. Commanded(asked) \in Bulbs
    BY <1>3, ValuesOfBulb DEF Put, BulbOfKind, Commanded, Bulbs, ShownLevels
  <2> QED
    BY <1>3, <2>1 DEF Put, BulbOfKind, DeviceOfKind, Bulbs, Mine, device
<1>4. CASE Apply
  <2>1. UNCHANGED <<kind, hw, reading, asked>> /\ phase' = "select"
    BY <1>4 DEF Apply
  <2>2. CASE UNCHANGED device
    BY <2>1, <2>2 DEF BulbOfKind, DeviceOfKind, Bulbs, Mine, device
  <2>3. CASE Device!ReportUpdate(Shown(reading))
    <3>1. DeviceOfKind'
      BY <2>1, <2>3, ShownIsMine, ReadingKeepsKind
    <3> QED
      BY <2>1, <3>1 DEF BulbOfKind, Bulbs, Mine
  <2> QED
    BY <1>4, <2>2, <2>3 DEF Apply
<1>5. CASE PollTick \/ PutFails \/ Get \/ GetFails \/ (\E b \in Bulbs : Touch(b)) \/ CalmDown
           \/ UNCHANGED vars
  <2>1. UNCHANGED <<device, kind, asked>> /\ (phase' = "put" => phase = "put")
    BY <1>5 DEF PollTick, PutFails, Get, GetFails, Touch, CalmDown, vars, bulb
  <2>2. hw' \in Bulbs /\ reading' \in Bulbs
    BY <1>5 DEF PollTick, PutFails, Get, GetFails, Touch, CalmDown, vars, bulb, BulbOfKind
  <2> QED
    BY <2>1, <2>2 DEF DeviceOfKind, BulbOfKind, Bulbs, Mine, device
<1> QED
  BY <1>1, <1>2, <1>3, <1>4, <1>5 DEF Next

\* A bulb's task uses its overridable device as OverridableDevice is used, so
\* that the device's theorems hold for it: it answers a setting before it takes
\* another, and reports between settings only (device_loop and apply_update).
THEOREM BulbUsesDevice == Spec => Device!Spec
<1>1. Init => Device!Init /\ DeviceOfKind /\ BulbOfKind
  <2> SUFFICES ASSUME Init
               PROVE  Device!Init /\ DeviceOfKind /\ BulbOfKind
    OBVIOUS
  <2>1. Device!Init /\ BulbOfKind
    BY DEF Init, BulbOfKind
  <2>2. DeviceOfKind
    BY ValuesOfBulb DEF Init, Device!Init, DeviceOfKind
  <2> QED
    BY <2>1, <2>2
<1>2. BulbOfKind /\ [Next]_vars => [Device!Next]_(Device!vars)
  <2> SUFFICES ASSUME BulbOfKind, Next
               PROVE  [Device!Next]_(Device!vars)
    BY DEF vars, device, Device!vars
  <2>1. CASE \/ NextSetting(Returns) \/ NextSetting(Receives) \/ NextSetting(Device!ExpireOverride)
             \/ TakeCommand \/ Tick
    BY <2>1 DEF NextSetting, Returns, Receives, TakeCommand, Tick, Device!Next
  <2>2. CASE Apply
    BY <2>2, ShownIsMine DEF Apply, Device!Next, device, Device!vars
  <2>3. CASE \E c \in Clients, v \in Mine \cup {WrongType} : Send(c, v)
    BY <2>3, ShownIsMine DEF Send, Device!Next
  <2>4. CASE \/ PollTick \/ Put \/ PutFails \/ Get \/ GetFails
             \/ (\E b \in Bulbs : Touch(b)) \/ CalmDown
    BY <2>4 DEF PollTick, Put, PutFails, Get, GetFails, Touch, CalmDown, device, Device!vars
  <2> QED
    BY <2>1, <2>2, <2>3, <2>4 DEF Next
<1> QED
  BY <1>1, <1>2, BulbKeepsKind, PTL DEF Spec, Device!Spec

\* The theorems' device is the bulb's.
LEMMA SameDevice == Device!Spec => P!Spec
<1>1. Device!Init => P!Init
  BY DEF Device!Init, P!Init, Device!Idle, P!Idle
<1>2. [Device!Next]_(Device!vars) => [P!Next]_(P!vars)
  BY DEF Device!Next, P!Next, Device!vars, P!vars, Device!dev, P!dev,
     Device!Idle, P!Idle, Device!NextDeadline, P!NextDeadline, Device!Become, P!Become,
     Device!BecomeOverridden, P!BecomeOverridden, Device!Reply, P!Reply,
     Device!ReportUpdate, P!ReportUpdate, Device!PollUnknown, P!PollUnknown,
     Device!PollIgnored, P!PollIgnored, Device!PollConfirms, P!PollConfirms, 
     Device!PollContradicts, P!PollContradicts, Device!PollAnticipates, P!PollAnticipates,
     Device!PollOverrides, P!PollOverrides, Device!PollRestores, P!PollRestores,
     Device!PollOverridesAgain, P!PollOverridesAgain, Device!Receiving, P!Receiving,
     Device!RejectWrongType, P!RejectWrongType, Device!Yields, P!Yields,
     Device!TakeSetting, P!TakeSetting, Device!TakeSameSetting, P!TakeSameSetting,
     Device!StoreSetting, P!StoreSetting, Device!FinishReport, P!FinishReport, 
     Device!ForwardSetting, P!ForwardSetting, Device!ReassertSetting, P!ReassertSetting,
     Device!ExpireOverride, P!ExpireOverride, Device!SendSetting, P!SendSetting,
     Device!DriverReply, P!DriverReply, Device!ResetState, P!ResetState,
     Device!Tick, P!Tick, Device!Receive, P!Receive
<1> QED
  BY <1>1, <1>2, PTL DEF Device!Spec, P!Spec

\* Whatever requests fail and whoever uses the bulb: clients read what the device
\* holds, an override is visible, every request is in one place and answered with
\* what was asked for, and only settings and further overrides replace what the
\* bulb is to show.
THEOREM DeviceOfBulb ==
  Spec => /\ [](Device!BackendInStep /\ Device!BackendShowsHardware)
          /\ [](Device!RequestsAccounted /\ Device!RightReply)
          /\ Device!TargetKept
<1> USE ValuesOfBulb
<1>1. P!Spec => [](Device!BackendInStep /\ Device!BackendShowsHardware)
  <2>1. P!BackendInStep /\ P!BackendShowsHardware => Device!BackendInStep /\ Device!BackendShowsHardware
    BY DEF P!BackendInStep, P!BackendShowsHardware, Device!BackendInStep, Device!BackendShowsHardware
  <2>2. P!Spec => []P!BackendInStep
    BY P!BackendTruthful
  <2>3. P!Spec => []P!BackendShowsHardware
    BY P!HardwareIsShown
  <2> QED
    BY <2>1, <2>2, <2>3, PTL
<1>2. P!Spec => [](Device!RequestsAccounted /\ Device!RightReply)
  <2>1. P!RequestsAccounted /\ P!RightReply => Device!RequestsAccounted /\ Device!RightReply
    BY DEF P!RequestsAccounted, P!RightReply, P!InQueue,
           Device!RequestsAccounted, Device!RightReply, Device!InQueue
  <2>2. P!Spec => []P!RequestsAccounted
    BY P!RequestsAreAccounted
  <2>3. P!Spec => []P!RightReply
    BY P!RepliesAreRight
  <2> QED
    BY <2>1, <2>2, <2>3, PTL
<1>3. P!Spec => Device!TargetKept
  <2>1. P!TargetKept => Device!TargetKept
    BY DEF P!TargetKept, P!Target, P!vars, Device!TargetKept, Device!Target, Device!vars
  <2> QED
    BY <2>1, P!TargetIsKept
<1> QED
  BY BulbUsesDevice, <1>1, <1>2, <1>3, SameDevice, PTL

-----------------------------------------------------------------------------
(* The composition. *)

\* In MCSpec each driver takes its own steps or none, so that what is proved of
\* a driver holds of the behaviours that are checked.
THEOREM DriversRunAlone ==
  MCSpec =>
    /\ T!Spec /\ L!Spec /\ C!Spec /\ Y!Spec /\ I!Spec /\ S!Spec /\ R!Spec /\ K!Spec
    /\ M!Spec /\ N!Init /\ [][N!Next]_(N!vars) /\ Spec
<1>1. MCInit => /\ T!Init /\ L!Init /\ C!Init /\ Y!Init /\ I!Init /\ S!Init /\ R!Init /\ K!Init
                /\ N!Init /\ Init
  BY DEF MCInit, OneOf
<1>2. [MCNext]_allVars => [L!Next]_(L!vars)
  BY DEF MCNext, Rest, allVars, latch, L!vars
<1>3. [MCNext]_allVars => [C!Next]_(C!vars)
  BY DEF MCNext, Rest, allVars, counter, C!vars
<1>4. [MCNext]_allVars => [Y!Next]_(Y!vars)
  BY DEF MCNext, Rest, allVars, cycle, Y!vars
<1>5. [MCNext]_allVars => [I!Next]_(I!vars)
  BY DEF MCNext, Rest, allVars, integral, I!vars
<1>6. [MCNext]_allVars => [S!Next]_(S!vars)
  BY DEF MCNext, Rest, allVars, sump, S!vars, S!cycle
<1>7. [MCNext]_allVars => [R!Next]_(R!vars)
  BY DEF MCNext, Rest, allVars, rain, R!vars, R!driver, R!precip, R!rainfall
<1>8. [MCNext]_allVars => [K!Next]_(K!vars)
  BY DEF MCNext, Rest, allVars, memory, K!vars
<1>9. [MCNext]_allVars => [N!Next]_(N!vars)
  BY DEF MCNext, Rest, allVars, ntp, N!vars
<1>10. [MCNext]_allVars => [Next]_vars
  BY DEF MCNext, Rest, allVars, vars
<1>11. [MCNext]_allVars => [T!Next]_(T!vars)
  BY DEF MCNext, Rest, allVars, timer, T!vars
<1>12. [MCNext]_allVars => [M!Next]_(M!vars)
  BY DEF MCNext, Rest, allVars, map, M!vars
<1>13. MCInit => M!Init
  <2> SUFFICES ASSUME m_entries = <<>>, m_index = Absent, m_output = M!Default PROVE M!Init
    BY DEF MCInit
  <2>1. m_entries \in [1..0 -> M!Entry] /\ 0 \in 0..Ranges
    BY MapAssumption
  <2>2. m_entries \in M!Configs
    BY <2>1 DEF M!Configs
  <2>3. Len(M!SortedPositions(m_entries)) = 0
    BY <2>1, <2>2, SortedAreAll
  <2>4. M!Parses(m_entries)
    BY <2>3 DEF M!Parses
  <2> QED
    BY <2>2, <2>4 DEF M!Init
<1> QED
  BY <1>1, <1>2, <1>3, <1>4, <1>5, <1>6, <1>7, <1>8, <1>9, <1>10, <1>11, <1>12, <1>13,
     PTL DEF MCSpec, Spec, T!Spec, L!Spec, C!Spec, Y!Spec, I!Spec, S!Spec, R!Spec, K!Spec, M!Spec
=============================================================================
