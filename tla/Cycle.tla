------------------------------- MODULE Cycle -------------------------------
(***************************************************************************)
(* The cycle driver (drmemd/driver/cycle): while it is enabled its output  *)
(* goes round a list of values, each for Millis.                           *)
(***************************************************************************)
EXTENDS DriverParameters

VARIABLES
  cycling,    \* CycleState is Cycling
  index,      \* position in Enabled
  left,       \* time until the next tick of the interval timer
  fresh,      \* the interval timer's first tick is to come
  output,     \* the value reported for the output device
  repeated,   \* a report of the output was not a change
  held        \* how long the value has been held, up to Millis

vars == <<cycling, index, left, fresh, output, repeated, held>>

\* The first tick of an interval timer comes at once; `cycling` is the
\* configuration's enabled_at_boot.
Init ==
  /\ cycling \in BOOLEAN
  /\ output = IF cycling THEN Enabled[1] ELSE Disabled
  /\ index = 1
  /\ left = 0
  /\ fresh = TRUE
  /\ held = 0
  /\ repeated = FALSE

\* Report v if the output does not have it yet.
Report(v) == output' = v /\ repeated' = (repeated \/ v = output)
ReportNothing == UNCHANGED <<output, repeated>>

Following == (index % Len(Enabled)) + 1

\* The interval timer ticks, in either state.
TimeExpired ==
  /\ left = 0
  /\ left' = Millis
  /\ fresh' = FALSE
  /\ IF cycling
     THEN /\ index' = Following
          /\ held' = 0
          /\ IF Enabled[Following] # Enabled[index] THEN Report(Enabled[Following]) ELSE ReportNothing
     ELSE UNCHANGED <<index, held>> /\ ReportNothing
  /\ UNCHANGED cycling

\* Defect: the interval timer is not reset.
StartOnOldTick ==
  /\ ~cycling
  /\ cycling' = TRUE
  /\ index' = 1
  /\ held' = 0
  /\ UNCHANGED <<left, fresh>>
  /\ IF Enabled[1] # Disabled THEN Report(Enabled[1]) ELSE ReportNothing

\* update_state(true) of an idle cycle.
Start ==
  /\ ~cycling
  /\ cycling' = TRUE
  /\ index' = 1
  /\ held' = 0
  /\ left' = Millis
  /\ fresh' = FALSE
  /\ IF Enabled[1] # Disabled THEN Report(Enabled[1]) ELSE ReportNothing

\* update_state(false) of a running cycle.
Stop ==
  /\ cycling
  /\ cycling' = FALSE
  /\ UNCHANGED <<index, left, fresh, held>>
  /\ IF Enabled[index] # Disabled THEN Report(Disabled) ELSE ReportNothing

\* A setting of the enable device.
SetEnable(b) == IF b = cycling THEN UNCHANGED vars ELSE Start \/ Stop

\* Time passes; a tick that is due is handled first.
Tick ==
  /\ left > 0
  /\ left' = left - 1
  /\ held' = IF held < Millis THEN held + 1 ELSE Millis
  /\ UNCHANGED <<cycling, index, fresh, output, repeated>>

Next == (\E b \in BOOLEAN : SetEnable(b)) \/ TimeExpired \/ Tick

Spec == Init /\ [][Next]_vars

-----------------------------------------------------------------------------
(* Properties. *)

\* A cycle holds each of its values for a full period before the next, the
\* first one too, whenever the timer ticked before the cycle was started.  The
\* one exception is the tick with which the timer itself starts.  The output
\* shows the current value, or the disabled value, and every report is a change
\* ("only reports state changes"), although reports are suppressed by comparing
\* list entries, not the output.
HoldsEachValue ==
  [][/\ cycling /\ index' # index /\ cycling' => held = Millis \/ fresh
     /\ output' = (IF cycling' THEN Enabled[index'] ELSE Disabled)
     /\ ~repeated']_vars
=============================================================================
