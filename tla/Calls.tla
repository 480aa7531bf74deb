------------------------------- MODULE Calls -------------------------------
(***************************************************************************)
(* A call of one of the functions that are checked for all their           *)
(* arguments: its name and arguments, or <<>> before it.                   *)
(***************************************************************************)
EXTENDS Sequences

VARIABLE call

IsCall(f) == call # <<>> /\ call[1] = f
=============================================================================
