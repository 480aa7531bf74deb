-------------------------------- MODULE Sump --------------------------------
(***************************************************************************)
(* The sump driver (drivers/drmem-drv-sump): a remote process sends a      *)
(* time-stamped frame whenever the pump starts and stops, and the driver   *)
(* computes the duty of each cycle, from one stop to the next.             *)
(***************************************************************************)
EXTENDS DriverParameters

VARIABLES
  mode,               \* "Unknown", "Off", "On"
  off_time, on_time,  \* of the last stop, of the last start
  state, service,     \* the devices of the pump and of the connection
  duty, in_flow,      \* of the last cycle, in 0.1 % and in 0.01 gpm
  duration,           \* of the last cycle, in 0.01 min
  total,              \* the cycles reported, added up
  base,               \* the stop from which they are counted
  stepped             \* the clock went back while the pump ran

vars == <<mode, off_time, on_time, state, service, duty, in_flow, duration, total, base, stepped>>

cycle == <<duty, in_flow, duration>>

Init ==
  /\ mode = "Unknown" /\ off_time = 0 /\ on_time = 0
  /\ state = FALSE /\ service = TRUE
  /\ duty = 0 /\ in_flow = 0 /\ duration = 0
  /\ total = 0 /\ base = 0 /\ stepped = FALSE

\* f64::round of n/d.
Rounded(n, d) == (2 * n + d) \div (2 * d)

\* A stop from which a cycle is counted, and that ends none.
StopAt(stamp) ==
  /\ mode' = "Off" /\ off_time' = stamp
  /\ base' = stamp /\ total' = 0
  /\ UNCHANGED <<on_time, state, service, cycle>>

\* off_event and the reports of what it returns.
EndCycle(stamp) ==
  LET length == stamp - off_time
      running == stamp - on_time
  IN /\ mode' = "Off" /\ off_time' = stamp
     /\ state' = FALSE
     /\ duty' = Rounded(running * 1000, length)
     /\ in_flow' = Rounded(Gpm * running * 100, length)
     /\ duration' = Rounded(length, 600)
     /\ total' = total + length
     /\ stepped' = FALSE
     /\ UNCHANGED <<on_time, service, base>>

\* Defect: a glitch is a stop.
OffEventOfGlitch(stamp) ==
  /\ service
  /\ CASE mode = "Unknown" -> StopAt(stamp) /\ UNCHANGED stepped
       [] mode = "Off" -> UNCHANGED vars
       [] mode = "On" /\ on_time >= stamp -> StopAt(stamp) /\ stepped' = TRUE
       [] mode = "On" /\ on_time < stamp /\ stamp - on_time <= Short ->
            mode' = "Off" /\ off_time' = stamp /\ UNCHANGED <<on_time, state, service, cycle, total, base, stepped>>
       [] OTHER -> EndCycle(stamp)

\* A frame says that the pump is off.  A duplicate is ignored, and a glitch is,
\* which leaves the pump on.
OffEvent(stamp) ==
  /\ service
  /\ CASE mode = "Unknown" -> StopAt(stamp) /\ UNCHANGED stepped
       [] mode = "Off" -> UNCHANGED vars
       [] mode = "On" /\ on_time >= stamp -> StopAt(stamp) /\ stepped' = TRUE
       [] mode = "On" /\ on_time < stamp /\ stamp - on_time <= Short -> UNCHANGED vars
       [] OTHER -> EndCycle(stamp)

\* A frame says that the pump is on.
OnEvent(stamp) ==
  /\ service
  /\ IF mode = "Off" /\ stamp > off_time
     THEN /\ mode' = "On" /\ on_time' = stamp /\ state' = TRUE
          /\ UNCHANGED <<off_time, service, cycle, total, base, stepped>>
     ELSE UNCHANGED vars

\* The connection fails, and the driver panics.
ReadFails ==
  /\ service
  /\ state' = FALSE /\ service' = FALSE
  /\ mode' = "Unknown"
  /\ UNCHANGED <<off_time, on_time, cycle, total, base, stepped>>

\* It has been started again, and has connected.
Restarts ==
  /\ ~service
  /\ service' = TRUE /\ state' = FALSE /\ duty' = 0 /\ in_flow' = 0
  /\ mode' = "Unknown" /\ off_time' = 0 /\ on_time' = 0 /\ stepped' = FALSE
  /\ UNCHANGED <<duration, total, base>>

Next ==
  \/ \E stamp \in 0..LastStamp : OffEvent(stamp) \/ OnEvent(stamp)
  \/ ReadFails
  \/ Restarts

Spec == Init /\ [][Next]_vars

-----------------------------------------------------------------------------
(* Properties. *)

\* The cycles that are reported leave out no time and count none twice,
\* whatever frames are repeated, late or of a glitch; the pump runs for no more
\* than the whole of a cycle; and `state` shows a running pump, but for a clock
\* that was set back under it.
CyclesAddUp ==
  /\ mode # "Unknown" => total = off_time - base
  /\ duty <= 1000 /\ in_flow <= Gpm * 100
  /\ stepped \/ state = (mode = "On")
=============================================================================
