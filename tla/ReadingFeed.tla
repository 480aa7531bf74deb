----------------------------- MODULE ReadingFeed -----------------------------
(***************************************************************************)
(* What the storage promises about the history of one device, whichever    *)
(* backend keeps it: readings are only added, each later than the one      *)
(* before (DrMem does not take readings in random order), and a client     *)
(* that monitors the device is given readings of the history in that       *)
(* order, none of them twice.                                              *)
(***************************************************************************)
EXTENDS Integers, Sequences

CONSTANTS
  Monitors,   \* clients monitoring the device
  MaxTime     \* the last representable timestamp

VARIABLES
  log,   \* timestamps of the readings reported so far
  got    \* positions in log of the readings each monitor was given

vars == <<log, got>>

Init ==
  /\ log = <<>>
  /\ got = [m \in Monitors |-> <<>>]

\* ts may follow the reading prev: it is later, unless time has run out.
Follows(prev, ts) == prev < ts \/ ts = MaxTime

Add(ts) ==
  /\ log = <<>> \/ Follows(log[Len(log)], ts)
  /\ log' = Append(log, ts)
  /\ UNCHANGED got

Give(m, p) ==
  /\ got[m] = <<>> \/ got[m][Len(got[m])] < p
  /\ got' = [got EXCEPT ![m] = Append(@, p)]
  /\ UNCHANGED log

Next ==
  \/ \E ts \in 0..MaxTime : Add(ts)
  \/ \E m \in Monitors, p \in 1..Len(log) : Give(m, p)

Spec == Init /\ [][Next]_vars
=============================================================================
