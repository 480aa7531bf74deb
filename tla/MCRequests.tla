----------------------------- MODULE MCRequests -----------------------------
(***************************************************************************)
(* Requests of clients for TLC: on their way through the core to a driver, *)
(* and at an overridable device.  Each behaviour is one of the core or one *)
(* of the device, chosen at the start.                                     *)
(***************************************************************************)
EXTENDS OverridableDevice, Core

\* The second section conflicts with the first on x after registering y; the
\* third runs the first's driver again: it has a device of its own, and takes x.
MixedOwner == <<"a", "b", "a">>
MixedWants == << <<"x">>, <<"y", "x">>, <<"z", "x">> >>

\* Two sections run the same driver and name the same device.
TwinOwner == <<"a", "a">>
TwinWants == << <<"x">>, <<"x">> >>

VARIABLE at   \* "core" or "device"

requestVars == <<at, vars, coreVars>>

\* What does not run stands still in one of its initial states.
RequestInit ==
  /\ at \in {"core", "device"}
  /\ CoreInit
  /\ Init /\ (at = "device" \/ state = "Unknown")

AtCore(A) == at = "core" /\ A /\ UNCHANGED <<at, vars>>
AtDevice(A) == at = "device" /\ A /\ UNCHANGED <<at, coreVars>>

RequestNext == AtCore(CoreNext) \/ AtDevice(Next)

RequestSpec ==
  /\ RequestInit /\ [][RequestNext]_requestVars
  /\ \/ at = "core" /\ CoreFairness
     \/ at = "device" /\ Fairness

\* The core alone.
AloneSpec == at = "core" /\ RequestInit /\ [][AtCore(CoreNext)]_requestVars
=============================================================================
