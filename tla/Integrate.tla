------------------------------ MODULE Integrate ------------------------------
(***************************************************************************)
(* The integrate driver (drmemd/driver/integrate): sums what its data      *)
(* input is set to, until it is reset.                                     *)
(***************************************************************************)
EXTENDS DriverParameters

VARIABLES
  primed,   \* Instance is Primed, not Reset
  total,    \* its sum
  reset,    \* the last setting of the reset device
  sum,      \* the value reported for the sum device
  applied   \* what data was set to since reset last became true, added up

vars == <<primed, total, reset, sum, applied>>

Init ==
  /\ primed = TRUE /\ total = 0 /\ sum = 0
  /\ reset = FALSE /\ applied = 0

\* accumulate, which does not mind a reset that is held.
SetData(v) ==
  /\ total + v \in -Bound..Bound
  /\ total' = total + v /\ sum' = total'
  /\ applied' = applied + v
  /\ UNCHANGED <<primed, reset>>

\* Defect: every setting of true resets the sum.
ResetAlways(b) ==
  /\ primed' = ~b
  /\ total' = IF b THEN 0 ELSE total
  /\ sum' = total'

\* reset(b), and the report of a sum that may have changed.
Reset(b) ==
  /\ primed' = ~b
  /\ total' = IF primed /\ b THEN 0 ELSE total
  /\ sum' = IF primed = b THEN total' ELSE sum

SetReset(b) ==
  /\ Reset(b)
  /\ reset' = b
  /\ applied' = IF b /\ ~reset THEN 0 ELSE applied

Next == (\E v \in Data : SetData(v)) \/ (\E b \in BOOLEAN : SetReset(b))

Spec == Init /\ [][Next]_vars

-----------------------------------------------------------------------------
(* Properties. *)

\* The sum is always what the data device was set to since the last false to
\* true transition of reset, also while reset stays true or is set again.
SumsData == sum = applied
=============================================================================
