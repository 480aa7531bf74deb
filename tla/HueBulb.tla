------------------------------ MODULE HueBulb ------------------------------
(***************************************************************************)
(* The hue driver (drivers/drmem-drv-hue): the task of one bulb, with the  *)
(* overridable device that holds the bulb's brightness or its colour, and  *)
(* the bridge, which others use too.                                       *)
(*                                                                         *)
(* The task waits for the poll timer or a setting.  A setting is sent to   *)
(* the bridge, and either way the bulb is polled then.  A brightness is    *)
(* sent as a whole level from 0 to 100, but the device keeps what was set. *)
(* A colour is sent as its coordinates, and is reported if these are not   *)
(* what was last sent or reported.                                         *)
(***************************************************************************)
EXTENDS Naturals, Sequences

CONSTANTS
  Values, WrongType, NoValue, Clients, NoClient, ChanSize, Timed, OverrideDuration,
  Levels,    \* brightnesses, with some that no bulb can show; 0 is one of them
  Clamp,     \* clamp(0.0, 100.0).round() of a brightness
  Colors,    \* RGB values; with Levels, the Values
  Points,    \* coordinates
  CieXy,     \* rgba_to_cie_xy: they do not have all of a colour
  Rgba       \* cie_xy_to_rgba

ASSUME ValuesOfBulb ==
  /\ Values = Levels \cup Colors /\ 0 \in Levels
  /\ NoValue \notin Values /\ WrongType \notin Values /\ WrongType # NoValue
  /\ Clamp \in [Levels -> Levels] /\ Clamp[0] = 0 /\ \A v \in Levels : Clamp[Clamp[v]] = Clamp[v]
  /\ NoClient \notin Clients
  /\ ChanSize \in Nat \ {0}
  /\ Timed \in BOOLEAN /\ OverrideDuration \in Nat
  /\ CieXy \in [Colors -> Points] /\ Rgba \in [Points -> Colors]
  /\ \A p \in Points : CieXy[Rgba[p]] = p

VARIABLES
  state, value, setting, left, resp, queue, ask, handed, reported, seen,
  kind,      \* the device is the "brightness" or the "color"
  phase,     \* "select", "put", "get", "apply"
  asked,     \* the value of the last command, which is the one replied
  last_xy,   \* of ColorBulbDevice
  reading,   \* what the bridge answered
  hw,        \* the bulb: whether it is on, and at which level; or its coordinates
  confirmed, \* a poll has seen the last command
  touched,   \* since then somebody else changed the bulb
  calm       \* nobody else uses the bulb, no setting comes and no request fails

device == <<state, value, setting, left, resp, queue, ask, handed, reported, seen>>
bulb == <<kind, phase, asked, last_xy, reading, hw, confirmed, touched, calm>>
vars == <<device, bulb>>

Device == INSTANCE OverridableDevice

Mine == IF kind = "brightness" THEN Levels ELSE Colors
ShownLevels == {Clamp[v] : v \in Levels}
Bulbs == IF kind = "brightness" THEN BOOLEAN \X (ShownLevels \ {0}) ELSE Points

-----------------------------------------------------------------------------
(* Commands and readings. *)

\* What is sent, and replied, for a setting.
Clamped(v) == IF kind = "brightness" THEN Clamp[v] ELSE v

\* The bulb after the command for v: the arms of next_setting.
Commanded(v) ==
  CASE kind = "color" -> CieXy[v]
    [] kind = "brightness" /\ v = 0 -> <<FALSE, hw[2]>>
    [] OTHER -> <<TRUE, v>>

\* Defect: a bulb that is off still shows its level.
ShownOfLevel(b) == IF kind = "color" THEN Rgba[b] ELSE b[2]

\* What apply_update reads from the bridge's answer b.
Shown(b) == IF kind = "color" THEN Rgba[b] ELSE IF b[1] THEN b[2] ELSE 0

\* What the bulb shows after it.
SeenAs(v) == IF kind = "color" THEN Rgba[CieXy[v]] ELSE v

-----------------------------------------------------------------------------
(* The task: device_loop. *)

Init ==
  /\ kind \in {"brightness", "color"}
  /\ Device!Init /\ value \in Mine \cup {NoValue} /\ reported \in Mine \cup {NoValue}
  /\ phase = "get"
  /\ asked = NoValue /\ last_xy = NoValue
  /\ hw \in Bulbs /\ reading = hw
  /\ confirmed = FALSE /\ touched = FALSE /\ calm = FALSE

\* A step of the device's next_setting.
NextSetting(A) == phase = "select" /\ A /\ UNCHANGED bulb

\* A setting is ready: its client is answered with the value that is sent, and
\* the command goes out.
TakeCommand ==
  /\ phase = "select" /\ Device!DriverReply
  /\ phase' = "put" /\ asked' = Clamped(handed.val)
  /\ last_xy' = IF kind = "color" THEN CieXy[handed.val] ELSE last_xy
  /\ confirmed' = FALSE
  /\ touched' = (touched /\ handed.resp = NoClient)
  /\ UNCHANGED <<kind, reading, hw, calm>>

\* The poll timer ticks.
PollTick ==
  /\ phase = "select" /\ handed = Device!Idle
  /\ phase' = "get"
  /\ UNCHANGED <<device, kind, asked, last_xy, reading, hw, confirmed, touched, calm>>

\* send_command_direct, which only logs a failure.
Put ==
  /\ phase = "put" /\ phase' = "get"
  /\ hw' = Commanded(asked)
  /\ UNCHANGED <<device, kind, asked, last_xy, reading, confirmed, touched, calm>>

PutFails ==
  /\ phase = "put" /\ phase' = "get"
  /\ ~calm
  /\ UNCHANGED <<device, kind, asked, last_xy, reading, hw, confirmed, touched, calm>>

\* poll_device_direct: the bridge answers.
Get ==
  /\ phase = "get" /\ phase' = "apply"
  /\ reading' = hw
  /\ UNCHANGED <<device, kind, asked, last_xy, hw, confirmed, touched, calm>>

GetFails ==
  /\ phase = "get" /\ phase' = "select"
  /\ ~calm
  /\ UNCHANGED <<device, kind, asked, last_xy, reading, hw, confirmed, touched, calm>>

\* apply_update.
Apply ==
  /\ phase = "apply" /\ phase' = "select"
  /\ IF kind = "color" /\ reading = last_xy
     THEN UNCHANGED device
     ELSE Device!ReportUpdate(Shown(reading))
  /\ last_xy' = IF kind = "color" THEN reading ELSE last_xy
  /\ confirmed' = (asked # NoValue /\ Shown(reading) = SeenAs(asked))
  /\ UNCHANGED <<kind, asked, reading, hw, touched, calm>>

-----------------------------------------------------------------------------
(* The surroundings. *)

Send(c, v) == ~calm /\ Device!SendSetting(c, v) /\ UNCHANGED bulb

\* Somebody uses the Hue app.
Touch(b) ==
  /\ ~calm /\ hw # b
  /\ hw' = b
  /\ touched' = (touched \/ (confirmed /\ Shown(b) # Shown(hw)))
  /\ UNCHANGED <<device, kind, phase, asked, last_xy, reading, confirmed, calm>>

Tick == Device!Tick /\ UNCHANGED bulb

CalmDown ==
  /\ ~calm /\ calm' = TRUE
  /\ UNCHANGED <<device, kind, phase, asked, last_xy, reading, hw, confirmed, touched>>

Returns == Device!FinishReport \/ Device!ForwardSetting \/ Device!ReassertSetting
Receives == Device!Receive \/ Device!RejectWrongType

Next ==
  \/ NextSetting(Returns) \/ NextSetting(Receives) \/ NextSetting(Device!ExpireOverride)
  \/ TakeCommand \/ PollTick \/ Put \/ PutFails \/ Get \/ GetFails \/ Apply
  \/ \E c \in Clients, v \in Mine \cup {WrongType} : Send(c, v)
  \/ \E b \in Bulbs : Touch(b)
  \/ Tick \/ CalmDown

Spec == Init /\ [][Next]_vars

\* Requests come to an end, time passes, and between two polls there is time
\* for a step of next_setting.
Fairness ==
  /\ SF_vars(NextSetting(Returns \/ Receives \/ Device!ExpireOverride))
  /\ WF_vars(TakeCommand) /\ WF_vars(PollTick)
  /\ WF_vars(Put) /\ WF_vars(Get) /\ WF_vars(Apply)
  /\ WF_vars(Tick)

FairSpec == Spec /\ Fairness

-----------------------------------------------------------------------------
(* Properties. *)

\* A bulb cannot show the brightness that was set.
Unshowable == kind = "brightness" /\ value # NoValue /\ value \notin ShownLevels

\* Whatever failed and whoever interfered before, in a calm a bulb's device comes
\* to rest: the settings are taken, overrides end, and the brightness of the bulb
\* is what the device holds and the backend shows.  (Its colour may not be: a
\* reading that is ignored while a report is under way is not given to the device
\* again.)  But a device that holds a brightness that its bulb cannot show comes
\* to send the nearest one for ever, and the backend shows what was set.
BulbConverges ==
  <>[](calm =>
    IF Unshowable
    THEN state \in {"Setting", "ReassertSetting"} /\ reported = value /\ Shown(hw) = Clamped(value)
    ELSE /\ queue = <<>>
         /\ Timed => state # "Overridden"
         /\ kind = "brightness" =>
              state \in {"Synced", "Overridden"} /\ Shown(hw) = value /\ reported = value)

\* "DrMem will apply settings to the device as normal": in a calm a setting that
\* waits is taken.
SettingsTaken == calm /\ queue # <<>> ~> queue = <<>>

\* "If the device is changed externally (e.g., via the Hue app) ... The device
\* enters "Override" mode and DrMem stops controlling it": with no timeout it
\* sends nothing more of its own.  A colour that was seen as it was set is not
\* reported, so its device still waits to see it, and sets it again.
OverrideHolds == ~Timed /\ touched => handed.val = NoValue \/ handed.resp # NoClient
=============================================================================
