------------------------------- MODULE Latch -------------------------------
(***************************************************************************)
(* The latch driver (drmemd/driver/latch): a false to true transition of   *)
(* trigger enables the output until the latch is reset.                    *)
(***************************************************************************)
VARIABLES
  tripped,   \* LatchState is Tripped
  trigger,   \* the last setting of the trigger device
  reset,     \* the last setting of the reset device
  output     \* the value reported for the output device

vars == <<tripped, trigger, reset, output>>

Init ==
  /\ tripped = FALSE
  /\ trigger = FALSE
  /\ reset = FALSE
  /\ output = "disabled"

\* Defect: a latch that is held reset trips.
UpdateStateTrips(r, edge) ==
  \/ /\ ~tripped /\ edge
     /\ tripped' = TRUE
     /\ output' = "enabled"
  \/ ~tripped /\ ~edge /\ UNCHANGED <<tripped, output>>
  \/ tripped /\ r /\ tripped' = FALSE /\ output' = "disabled"
  \/ tripped /\ ~r /\ UNCHANGED <<tripped, output>>

\* update_state(reset, delta_trigger) and the reports it asks for.  A
\* transition while the latch is held reset reports both values.
UpdateState(r, edge) ==
  \/ ~tripped /\ ~edge /\ UNCHANGED <<tripped, output>>
  \/ ~tripped /\ edge /\ r /\ output' = "disabled" /\ UNCHANGED tripped
  \/ ~tripped /\ edge /\ ~r /\ tripped' = TRUE /\ output' = "enabled"
  \/ tripped /\ r /\ tripped' = FALSE /\ output' = "disabled"
  \/ tripped /\ ~r /\ UNCHANGED <<tripped, output>>

SetTrigger(b) ==
  /\ UpdateState(reset, ~trigger /\ b)
  /\ trigger' = b
  /\ UNCHANGED reset

\* The state is updated with the previous value of reset, as in the code.
SetReset(b) ==
  /\ UpdateState(reset, FALSE)
  /\ reset' = b
  /\ UNCHANGED trigger

Next == \E b \in BOOLEAN : SetTrigger(b) \/ SetReset(b)

Spec == Init /\ [][Next]_vars

-----------------------------------------------------------------------------
(* Properties. *)

\* The output becomes enabled by a transition of trigger, and by every one
\* unless reset is held, and disabled by a reset only: by the input that sets
\* reset to true or, at the latest, by the next one, whatever it is, after
\* which the latch cannot trip until reset is set to false.  The output is
\* enabled exactly while the latch is tripped.  (drv_latch.md has it disabled
\* whenever reset is true; the code is one input late.)
TripsAndResets ==
  [][/\ ~reset /\ ~trigger /\ trigger' => output' = "enabled"
     /\ output' = "enabled" => ~reset /\ (output = "enabled" \/ (~trigger /\ trigger'))
     /\ output = "enabled" /\ output' = "disabled" => reset \/ reset'
     /\ tripped' <=> output' = "enabled"]_vars
=============================================================================
