--------------------------- MODULE MCSharedSwitch ---------------------------
(***************************************************************************)
(* SharedSwitch for TLC.                                                   *)
(***************************************************************************)
EXTENDS SharedSwitch

CONSTANTS low, high

\* The driver sends what it is given.
Exact == [v \in Values |-> v]

\* A brightness, high, that the driver clips.
Clipped == [v \in Values |-> low]
=============================================================================
