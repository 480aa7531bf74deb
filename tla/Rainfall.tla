------------------------------ MODULE Rainfall ------------------------------
(***************************************************************************)
(* The weather-wu driver and its precipitation (PrecipState): a rainfall's *)
(* total is kept from the totals of a station that starts again at         *)
(* midnight, until it has been dry for ten hours.  The driver panics when  *)
(* it cannot get an observation, and its manager starts it again.          *)
(***************************************************************************)
EXTENDS DriverParameters

VARIABLES
  station,          \* the total of the day
  raining,          \* what the station shows for a rate is not zero
  mode,             \* "NoRain", "Rain", "Pause"
  prev, running,    \* of PrecipState
  since,            \* the samples from the one that set `time`, up to Dry
  prec_total,       \* the device
  prec_last_total,  \* the device
  up,               \* the driver runs
  error,            \* the device
  fallen,           \* what has fallen in this rainfall
  midnight,         \* the station started again in this rainfall
  ended,            \* what of the day's total was in rainfalls that are over
  again             \* what of it a driver that was started again takes for new

precip == <<mode, prev, running, since, prec_total, prec_last_total>>
driver == <<precip, up, error>>
rainfall == <<fallen, midnight, ended, again>>
vars == <<station, raining, driver, rainfall>>

\* At its start the driver takes the day's total for the rainfall's.
Init ==
  /\ station \in 0..Deep /\ raining \in BOOLEAN
  /\ mode = "NoRain" /\ prev = 0 /\ running = 0 /\ since = 0
  /\ prec_total = 0 /\ prec_last_total = 0
  /\ up = TRUE /\ error = FALSE
  /\ fallen = station /\ midnight = FALSE /\ ended = 0 /\ again = 0

-----------------------------------------------------------------------------
(* The station. *)

Rains(n) ==
  /\ station + n <= Deep /\ fallen + n <= Deep
  /\ station' = station + n /\ fallen' = fallen + n
  /\ raining' \in BOOLEAN
  /\ UNCHANGED <<driver, midnight, ended, again>>

RainStops ==
  /\ raining /\ raining' = FALSE
  /\ UNCHANGED <<driver, station, rainfall>>

Midnight ==
  /\ station # 0
  /\ station' = 0 /\ midnight' = TRUE /\ ended' = 0
  /\ UNCHANGED <<driver, raining, fallen, again>>

-----------------------------------------------------------------------------
(* The driver. *)

\* A rainfall of which `total` has been seen.
Raining(total) ==
  /\ mode' = "Rain" /\ prev' = station /\ running' = total /\ since' = 0
  /\ prec_total' = total

\* The rainfall is over; what is not seen yet belongs to the next one.
Over(next) ==
  /\ mode' = next
  /\ prec_total' = 0
  /\ UNCHANGED <<prev, running>> /\ since' = 0

\* NoRain.
SampleNoRain ==
  /\ mode = "NoRain"
  /\ IF station > 0 THEN Raining(station) ELSE Over("NoRain")
  /\ IF station > 0 THEN UNCHANGED rainfall
     ELSE fallen' = 0 /\ midnight' = FALSE /\ again' = 0 /\ UNCHANGED ended
  /\ UNCHANGED prec_last_total

\* Pause: the rainfall is over and the station still has its total.
SamplePause ==
  /\ mode = "Pause"
  /\ UNCHANGED <<prec_last_total, ended, again>>
  /\ CASE station = 0 -> /\ Over(IF raining THEN "Pause" ELSE "NoRain")
                         /\ fallen' = 0 /\ midnight' = raining
       [] station > prev -> Raining(station - prev) /\ UNCHANGED <<fallen, midnight>>
       [] station < prev /\ station # 0 -> Raining(station) /\ UNCHANGED <<fallen, midnight>>
       [] OTHER -> Over("Pause") /\ UNCHANGED <<fallen, midnight>>

\* Defect: the total of the day before is added again after midnight.
MoreOfDay == IF prev > station THEN prev ELSE station - prev

\* What has fallen since the last sample, as far as the station shows it.
More == IF prev > station THEN station ELSE station - prev

\* Rain: ten hours of no rain end it.
SampleRain ==
  /\ mode = "Rain"
  /\ IF ~raining /\ since = Dry
     THEN /\ Over("Pause")
          /\ prec_last_total' = running
          /\ fallen' = More /\ ended' = station - More /\ again' = 0
          /\ midnight' = (prev > station)
     ELSE /\ running' = running + More
          /\ prec_total' = running + More
          /\ prev' = station
          /\ since' = IF raining THEN 0 ELSE IF since < Dry THEN since + 1 ELSE Dry
          /\ UNCHANGED <<mode, prec_last_total, rainfall>>

\* An observation.  One that lacks the rate or the total changes nothing.
Sample ==
  /\ up /\ error' = FALSE
  /\ SampleNoRain \/ SamplePause \/ SampleRain
  /\ UNCHANGED <<station, raining, up>>

\* There is no answer, or one without the data in the units of the configuration,
\* of which the error device does not tell.
Fails ==
  /\ up /\ up' = FALSE
  /\ error' \in BOOLEAN
  /\ UNCHANGED <<station, raining, precip, rainfall>>

\* mgr_body makes a new instance, which takes the day's total for the rainfall's,
\* what was in a rainfall that is over included; the devices keep theirs.
Restarts ==
  /\ ~up /\ up' = TRUE /\ error' = FALSE
  /\ mode' = "NoRain" /\ prev' = 0 /\ running' = 0 /\ since' = 0
  /\ again' = ended
  /\ UNCHANGED <<station, raining, prec_total, prec_last_total, fallen, midnight, ended>>

Next == (\E n \in 1..2 : Rains(n)) \/ RainStops \/ Midnight \/ Sample \/ Fails \/ Restarts

Spec == Init /\ [][Next]_vars

-----------------------------------------------------------------------------
(* Properties. *)

\* As long as the driver does not panic no rain is counted twice, in a rainfall
\* or in two.  A driver that is started again counts again what the station
\* shows of the day's rainfalls that are over, and no more.  All rain is counted
\* as long as the station did not start again in the rainfall, or before it
\* while rain was already reported.
CountsRain ==
  mode = "Rain" =>
    /\ up => ~error
    /\ prec_total <= fallen + again
    /\ ~midnight => prec_total + (station - prev) = fallen + again
=============================================================================
