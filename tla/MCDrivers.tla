----------------------------- MODULE MCDrivers -----------------------------
(***************************************************************************)
(* The drivers for TLC.  Each behaviour is one of one of them, chosen at   *)
(* the start: a driver instance is a task of its own and shares nothing    *)
(* with another.  The hue driver's variables have their own names, those of *)
(* the others a prefix.                                                    *)
(***************************************************************************)
EXTENDS HueBulb, DriverParameters

CONSTANTS
  Other,     \* a value that is not Disabled
  red, dark, blue, here, there,
  bright     \* more than a bulb's brightest level, 1

\* The same value twice in a row, and the disabled value.
MCEnabled == <<Other, Other, Disabled>>

\* A truth value and an integer; both have been set before.
MCInitial == << <<"bool", 1>>, <<"int", 1>> >>
MCSettings == {<<"bool", 0>>, <<"bool", 1>>, <<"int", 2>>}

MCData == {-1, 1, 2}

\* Two colours that differ only in their brightness have the same coordinates.
MCCieXy == [c \in Colors |-> IF c = blue THEN there ELSE here]
MCClamp == [v \in Levels |-> IF v = bright THEN 1 ELSE v]
MCRgba == [p \in Points |-> IF p = here THEN red ELSE blue]

VARIABLES
  which,
  t_state, t_left, t_enable, t_output, t_repeated, t_since,
  l_tripped, l_trigger, l_reset, l_output,
  c_tripped, c_count, c_increment, c_shown, c_edges, c_extra, c_hidden,
  y_cycling, y_index, y_left, y_fresh, y_output, y_repeated, y_held,
  s_mode, s_off, s_on, s_state, s_service, s_duty, s_flow, s_duration, s_total, s_base, s_stepped,
  n_server, n_wire, n_phase, n_got, n_info, n_state, n_source, n_answer, n_faults,
  r_station, r_raining, r_mode, r_prev, r_running, r_since, r_total, r_last, r_up, r_error,
  r_fallen, r_midnight, r_ended, r_again,
  m_entries, m_index, m_output,
  k_running, k_stored, k_queue, k_held, k_replied,
  i_primed, i_total, i_reset, i_sum, i_applied

timer == <<t_state, t_left, t_enable, t_output, t_repeated, t_since>>
latch == <<l_tripped, l_trigger, l_reset, l_output>>
counter == <<c_tripped, c_count, c_increment, c_shown, c_edges, c_extra, c_hidden>>
cycle == <<y_cycling, y_index, y_left, y_fresh, y_output, y_repeated, y_held>>
sump == <<s_mode, s_off, s_on, s_state, s_service, s_duty, s_flow, s_duration, s_total, s_base, s_stepped>>
ntp == <<n_server, n_wire, n_phase, n_got, n_info, n_state, n_source, n_answer, n_faults>>
rain == <<r_station, r_raining, r_mode, r_prev, r_running, r_since, r_total, r_last, r_up, r_error,
          r_fallen, r_midnight, r_ended, r_again>>
map == <<m_entries, m_index, m_output>>
memory == <<k_running, k_stored, k_queue, k_held, k_replied>>
integral == <<i_primed, i_total, i_reset, i_sum, i_applied>>
allVars == <<which, timer, latch, counter, cycle, sump, ntp, rain, map, memory, integral, vars>>

T == INSTANCE Timer WITH state <- t_state, left <- t_left,
       enable <- t_enable, output <- t_output, repeated <- t_repeated, since <- t_since
L == INSTANCE Latch WITH tripped <- l_tripped, trigger <- l_trigger,
       reset <- l_reset, output <- l_output
C == INSTANCE Counter WITH tripped <- c_tripped, count <- c_count,
       increment <- c_increment, shown <- c_shown, edges <- c_edges,
       extra <- c_extra, hidden <- c_hidden
Y == INSTANCE Cycle WITH
       cycling <- y_cycling, index <- y_index, left <- y_left, fresh <- y_fresh,
       output <- y_output, repeated <- y_repeated, held <- y_held
S == INSTANCE Sump WITH
       mode <- s_mode, off_time <- s_off, on_time <- s_on, state <- s_state,
       service <- s_service, duty <- s_duty, in_flow <- s_flow, duration <- s_duration,
       total <- s_total, base <- s_base, stepped <- s_stepped
N == INSTANCE Ntp WITH
       server <- n_server, wire <- n_wire, phase <- n_phase, got <- n_got, info <- n_info,
       state <- n_state, source <- n_source, answer <- n_answer, faults <- n_faults
R == INSTANCE Rainfall WITH
       station <- r_station, raining <- r_raining, mode <- r_mode, prev <- r_prev,
       running <- r_running, since <- r_since, prec_total <- r_total,
       prec_last_total <- r_last, up <- r_up, error <- r_error,
       fallen <- r_fallen, midnight <- r_midnight, ended <- r_ended, again <- r_again
M == INSTANCE RangeMap WITH
       entries <- m_entries, index <- m_index, output <- m_output
K == INSTANCE MemoryCells WITH
       running <- k_running, stored <- k_stored, queue <- k_queue, held <- k_held,
       replied <- k_replied
I == INSTANCE Integrate WITH
       primed <- i_primed, total <- i_total, reset <- i_reset, sum <- i_sum, applied <- i_applied

\* The instances that do not run stand still in one of their initial states.
OneOf(driver, first, Inits) == Inits /\ (which = driver \/ first)

MCInit ==
  /\ which \in {"timer", "latch", "counter", "cycle", "sump", "ntp", "rain", "map", "memory", "integrate", "hue"}
  /\ T!Init /\ L!Init /\ C!Init /\ Y!Init /\ S!Init /\ I!Init
  /\ OneOf("ntp", n_server = 0, N!Init)
  /\ OneOf("rain", r_station = 0 /\ ~r_raining, R!Init)
  /\ IF which = "map" THEN M!Init ELSE m_entries = <<>> /\ m_index = Absent /\ m_output = M!Default
  /\ OneOf("memory", \A c \in K!Cells : k_stored[c] = <<>>, K!Init)
  /\ OneOf("hue", kind = "color" /\ hw = here /\ state = "Unknown", Init)

Rest(driver, d) == IF which = driver THEN TRUE ELSE UNCHANGED d

MCNext ==
  /\ UNCHANGED which
  /\ \/ which = "timer" /\ T!Next
     \/ which = "latch" /\ L!Next
     \/ which = "counter" /\ C!Next
     \/ which = "cycle" /\ Y!Next
     \/ which = "sump" /\ S!Next
     \/ which = "ntp" /\ N!Next
     \/ which = "rain" /\ R!Next
     \/ which = "map" /\ M!Next
     \/ which = "memory" /\ K!Next
     \/ which = "integrate" /\ I!Next
     \/ which = "hue" /\ Next
  /\ Rest("timer", timer) /\ Rest("latch", latch) /\ Rest("counter", counter)
  /\ Rest("cycle", cycle) /\ Rest("sump", sump) /\ Rest("ntp", ntp)
  /\ Rest("rain", rain) /\ Rest("map", map) /\ Rest("memory", memory)
  /\ Rest("integrate", integral) /\ Rest("hue", vars)

\* Of these drivers liveness properties are checked.
MCSpec ==
  /\ MCInit /\ [][MCNext]_allVars
  /\ WF_timer(which = "timer" /\ T!TimeExpired) /\ WF_timer(which = "timer" /\ T!Tick)
  /\ which = "hue" => Fairness

\* The NTP driver alone.
NtpSpec == which = "ntp" /\ MCInit /\ [][MCNext]_allVars /\ N!Fairness

\* The hue driver alone.
HueSpec == which = "hue" /\ MCInit /\ [][MCNext]_allVars /\ Fairness

\* The drivers' properties.
TimesOut == T!TimesOut
TripsAndResets == L!TripsAndResets
CountsEdges == C!CountsEdges
HoldsEachValue == Y!HoldsEachValue
SumsData == I!SumsData
CyclesAddUp == S!CyclesAddUp
FollowsServer == N!FollowsServer
\* (BulbConverges, SettingsTaken and OverrideHolds are the hue driver's.)
ShowsSync == N!ShowsSync
CountsRain == R!CountsRain
MapsToRange == M!MapsToRange
KeepsLastSetting == K!KeepsLastSetting
=============================================================================
