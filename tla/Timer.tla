------------------------------- MODULE Timer -------------------------------
(***************************************************************************)
(* The timer driver (drmemd/driver/timer): a false to true transition of   *)
(* its enable input makes the output active for Millis.                    *)
(*                                                                         *)
(* Each iteration of run() handles one branch of its select! to the end,   *)
(* so a branch is an action.                                               *)
(***************************************************************************)
EXTENDS DriverParameters

VARIABLES
  state,     \* TimerState
  left,      \* time until `timeout`
  enable,    \* the last setting of the enable device
  output,    \* the value reported for the output device
  repeated,  \* a report of the output was not a change
  since      \* time since the last transition of enable to true, up to Millis

vars == <<state, left, enable, output, repeated, since>>

States == {"Armed", "Timing", "TimingAndArmed", "TimedOut"}

Init ==
  /\ state = "Armed"
  /\ left = 0
  /\ enable = FALSE
  /\ output = "inactive"
  /\ repeated = FALSE
  /\ since = Millis

Report(v) == output' = v /\ repeated' = (repeated \/ v = output)
ReportNothing == UNCHANGED <<output, repeated>>

\* update_state(true), by state.
Trigger == state = "Armed" /\ state' = "Timing" /\ left' = Millis /\ Report("active")
Retrigger ==
  state = "TimingAndArmed" /\ state' = "Timing" /\ left' = Millis /\ ReportNothing
StayTrue == state \in {"Timing", "TimedOut"} /\ UNCHANGED <<state, left>> /\ ReportNothing

\* update_state(false): the timer is armed, timing or not.
Arm ==
  /\ state' = IF state \in {"Timing", "TimingAndArmed"} THEN "TimingAndArmed" ELSE "Armed"
  /\ UNCHANGED left
  /\ ReportNothing

\* A setting of the enable device.
SetEnable(b) ==
  /\ IF b THEN Trigger \/ Retrigger \/ StayTrue ELSE Arm
  /\ enable' = b
  /\ since' = IF b /\ ~enable THEN 0 ELSE since

\* Defect: only a timer whose input is true times out.
TimeExpiredWhileTrue ==
  /\ state = "Timing"
  /\ left = 0
  /\ state' = "TimedOut"
  /\ Report("inactive")
  /\ UNCHANGED <<left, enable, since>>

\* sleep_until(timeout) completes, which is awaited in the timing states.
TimeExpired ==
  /\ state \in {"Timing", "TimingAndArmed"}
  /\ left = 0
  /\ state' = IF state = "Timing" THEN "TimedOut" ELSE "Armed"
  /\ Report("inactive")
  /\ UNCHANGED <<left, enable, since>>

Tick ==
  /\ left > 0 \/ since < Millis
  /\ left' = IF left > 0 THEN left - 1 ELSE 0
  /\ since' = IF since < Millis THEN since + 1 ELSE Millis
  /\ UNCHANGED <<state, enable, output, repeated>>

Next ==
  \/ \E b \in BOOLEAN : SetEnable(b)
  \/ TimeExpired
  \/ Tick

Spec == Init /\ [][Next]_vars

\* Time passes, and a timeout that has passed is noticed.
Fairness == WF_vars(TimeExpired) /\ WF_vars(Tick)

-----------------------------------------------------------------------------
(* Properties. *)

\* The machine's state is what its input and its output say: the input is
\* true in Timing and TimedOut, the output active while timing.  A state that
\* loses track of the input misses the next transition or invents one.
StateFollowsInput ==
  /\ state \in States
  /\ state \in {"Timing", "TimedOut"} <=> enable
  /\ state \in {"Timing", "TimingAndArmed"} <=> output = "active"

\* The output stays active for Millis after the last transition of the input,
\* although the input may change and trigger again meanwhile.
NotEarly == output = "inactive" => since = Millis

\* The documentation's "only reports state changes".
ChangesOnly == ~repeated

\* The output does not stay active unless the timer is triggered again.
TimesOut ==
  (output = "active" /\ since > 0) ~> (output = "inactive" \/ since = 0)
=============================================================================
