---------------------------- MODULE SharedSwitch ----------------------------
(***************************************************************************)
(* The tplink driver (drivers/drmem-drv-tplink) with the overridable       *)
(* device that it shares with a person at the hardware.                    *)
(*                                                                         *)
(* The driver connects, then polls the hardware and forwards settings to   *)
(* it until a request fails, pauses, and connects again.  Settings are     *)
(* taken and acknowledged in all of these; only a connected driver passes  *)
(* them on.  One device is modelled: a switch's state or a dimmer's        *)
(* brightness.  The indicator is one more of the same kind.                *)
(***************************************************************************)
EXTENDS DeviceParameters

CONSTANT
  Clip   \* what the driver sets the hardware to when it is given a value:
         \* brought into range, and the whole part of a brightness

ASSUME ClipAssumption == Clip \in [Values -> Values]

VARIABLES
  state, value, setting, left, resp, queue, ask, handed, reported, seen,
  mode,     \* the loop the driver is in
  writing,  \* the value of the request to the hardware that is under way
  failing,  \* what the error device shows
  hw,       \* what the hardware shows
  calm      \* nobody touches the hardware, no setting comes and nothing fails

device == <<state, value, setting, left, resp, queue, ask, handed, reported, seen>>
vars == <<device, mode, writing, failing, hw, calm>>

Device == INSTANCE OverridableDevice

\* What the hardware can show.
Shown == {Clip[v] : v \in Values}

Init ==
  /\ Device!Init
  /\ mode = "connecting"
  /\ writing = NoValue
  /\ failing = TRUE
  /\ hw \in Shown
  /\ calm = FALSE

-----------------------------------------------------------------------------
(* What the driver does with the device.                                   *)

\* A step of next_setting, which every select! of the driver has a branch for.
\* It is not called while the hardware is being set.
NextSetting(A) ==
  /\ mode # "crashed" /\ writing = NoValue
  /\ A
  /\ UNCHANGED <<mode, writing, failing, hw, calm>>

\* The branch of the setting: the client is answered first.
ReplyWhileOffline ==
  /\ mode \in {"connecting", "pausing"}
  /\ Device!DriverReply
  /\ UNCHANGED <<mode, writing, failing, hw, calm>>

\* The driver clips the value, which its device does not learn.
Write ==
  /\ mode = "managing"
  /\ Device!DriverReply
  /\ writing' = Clip[handed.val]
  /\ UNCHANGED <<mode, failing, hw, calm>>

\* The hardware takes the setting.
Written ==
  /\ writing # NoValue
  /\ hw' = writing
  /\ writing' = NoValue
  /\ UNCHANGED <<device, mode, failing, calm>>

\* Defect: the driver polls before it answers a setting.
PollBeforeReply ==
  /\ mode = "managing" /\ writing = NoValue
  /\ \/ Device!ReportUpdate(hw)
     \/ Device!PollContradicts(hw) /\ seen' = hw /\ UNCHANGED <<queue, handed>>
  /\ UNCHANGED <<mode, writing, failing, hw, calm>>

\* Defect: a reading that is the same as the last one is not reported.
PollChanges ==
  /\ mode = "managing" /\ writing = NoValue
  /\ IF hw = seen THEN UNCHANGED device ELSE Device!ReportUpdate(hw)
  /\ UNCHANGED <<mode, writing, failing, hw, calm>>

\* The poll timer of manage_switch or manage_dimmer.
Poll ==
  /\ mode = "managing"
  /\ writing = NoValue
  /\ Device!ReportUpdate(hw)
  /\ UNCHANGED <<mode, writing, failing, hw, calm>>

-----------------------------------------------------------------------------
(* The connection.                                                         *)

Connected ==
  /\ mode = "connecting" /\ handed = Device!Idle
  /\ mode' = "managing"
  /\ failing' = FALSE
  /\ UNCHANGED <<device, writing, hw, calm>>

\* Defect: a failed request does not end the loop.
FailsUnnoticed ==
  /\ ~calm
  /\ mode = "managing" /\ handed = Device!Idle
  /\ failing' = TRUE
  /\ writing' = NoValue
  /\ UNCHANGED <<device, mode, hw, calm>>

\* A request fails: the main loop ends.  The hardware may have been set.
Fails ==
  /\ ~calm
  /\ mode = "managing" /\ handed = Device!Idle
  /\ mode' = "pausing"
  /\ failing' = TRUE
  /\ hw' \in {hw} \cup (Values \cap {writing})
  /\ writing' = NoValue
  /\ UNCHANGED <<device, calm>>

\* The socket could not be made.
ConnectFails ==
  /\ ~calm
  /\ mode = "connecting" /\ handed = Device!Idle
  /\ mode' = "pausing"
  /\ UNCHANGED <<device, writing, failing, hw, calm>>

PauseEnds ==
  /\ mode = "pausing" /\ handed = Device!Idle
  /\ mode' = "connecting"
  /\ UNCHANGED <<device, writing, failing, hw, calm>>

\* The driver panics.  The transaction that it held is dropped, which its client
\* sees.  Nobody tells the error device.
Crash ==
  /\ ~calm
  /\ mode # "crashed"
  /\ IF handed = Device!Idle THEN UNCHANGED device ELSE Device!DriverReply
  /\ mode' = "crashed"
  /\ writing' = NoValue
  /\ UNCHANGED <<failing, hw, calm>>

\* Its manager resets its devices and starts it again.
Restart ==
  /\ mode = "crashed"
  /\ Device!ResetState
  /\ mode' = "connecting"
  /\ failing' = TRUE
  /\ UNCHANGED <<writing, hw, calm>>

-----------------------------------------------------------------------------
(* The surroundings.                                                       *)

Send(c, v) ==
  /\ ~calm
  /\ Device!SendSetting(c, v)
  /\ UNCHANGED <<mode, writing, failing, hw, calm>>

Touch(v) ==
  /\ ~calm
  /\ hw' = v
  /\ UNCHANGED <<device, mode, writing, failing, calm>>

Tick ==
  /\ Device!Tick
  /\ UNCHANGED <<mode, writing, failing, hw, calm>>

CalmDown == calm' = TRUE /\ ~calm /\ UNCHANGED <<device, mode, writing, failing, hw>>

Returns == Device!FinishReport \/ Device!ForwardSetting \/ Device!ReassertSetting
Receives == Device!Receive \/ Device!RejectWrongType

Next ==
  \/ NextSetting(Returns) \/ NextSetting(Receives) \/ NextSetting(Device!ExpireOverride)
  \/ ReplyWhileOffline \/ Write \/ Written \/ Poll
  \/ Connected \/ Fails \/ ConnectFails \/ PauseEnds \/ Crash \/ Restart
  \/ \E c \in Clients, v \in Values \cup {WrongType} : Send(c, v)
  \/ \E v \in Shown : Touch(v)
  \/ Tick \/ CalmDown

Spec == Init /\ [][Next]_vars

\* Requests to the hardware come to an end, as does a connection in a calm,
\* time passes, and a branch of the select! that is ready again and again is
\* taken.
Fairness ==
  /\ WF_vars(NextSetting(Returns)) /\ SF_vars(NextSetting(Receives))
  /\ WF_vars(NextSetting(Device!ExpireOverride))
  /\ WF_vars(ReplyWhileOffline \/ Write) /\ WF_vars(Written) /\ SF_vars(Poll)
  /\ WF_vars(calm /\ Connected) /\ WF_vars(PauseEnds) /\ WF_vars(Restart)
  /\ WF_vars(Tick)

FairSpec == Spec /\ Fairness

-----------------------------------------------------------------------------
(* Properties.                                                             *)

\* The driver uses its device as OverridableDevice is meant to be used: it
\* polls only when it is done with the last setting, and so all that is shown
\* of the device holds for this driver.
ImplementsDevice == Device!Spec

\* While the driver runs, the error device tells whether it can reach its
\* hardware (sync_error_state), and no request is under way when it cannot.
ErrorIsShown ==
  /\ mode # "crashed" => (failing <=> mode # "managing")
  /\ writing # NoValue => mode = "managing"

\* While a request to the hardware is under way, the backend shows the setting
\* that it carries out and the device waits to see it.  The request is the
\* setting as the driver clips it, so it is what a client reads only if the
\* setting is one that the hardware can show.
WritesWhatIsShown ==
  writing # NoValue =>
    /\ state = "Setting" /\ reported = value
    /\ writing = Clip[value]

\* The hardware, the device and the backend show the same.
Agreed == state \in {"Synced", "Overridden"} /\ value = hw /\ reported = hw

\* Whatever happened before, once nobody interferes the driver brings the
\* hardware and the backend to one value, with no override left that should
\* have ended and no client waiting: settings acknowledged without a
\* connection are not lost.
Converges ==
  <>[](calm => Agreed /\ (Timed => state = "Synced") /\ queue = <<>>)

\* What the driver's README says of brightness: "If the value is out of range,
\* it will be brought back in range."
BroughtInRange ==
  calm /\ reported \in Values \ Shown ~> reported \in Shown
=============================================================================
