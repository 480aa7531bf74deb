------------------------ MODULE SharedSwitch_proofs ------------------------
(***************************************************************************)
(* Proofs about SharedSwitch, for any values, clients and hardware.        *)
(***************************************************************************)
EXTENDS SharedSwitch, TLAPS

\* The theorems about the device, for this driver's.
P == INSTANCE OverridableDevice_proofs

USE ClipAssumption, ValuesAssumption, ClientsAssumption, ChanAssumption, DurationAssumption

-----------------------------------------------------------------------------
(* A poll is a step of the device only if the hardware shows a value.  So  *)
(* every setting that the driver clips must be one, which comes from the   *)
(* device's value or saved setting.                                        *)

DeviceHasValues ==
  /\ state = "Unknown" \/ value \in Values
  /\ state # "Overridden" \/ setting \in Values
  /\ handed = Device!Idle \/ handed.val \in Values

HardwareHasValues ==
  /\ hw \in Values
  /\ writing \in Values \cup {NoValue}

\* No step of the device brings in what is not a value.
LEMMA DeviceKeepsValues ==
  DeviceHasValues /\ [Device!Next]_(Device!vars) => DeviceHasValues'
<1>. SUFFICES ASSUME DeviceHasValues, [Device!Next]_(Device!vars)
              PROVE  DeviceHasValues'
  OBVIOUS
<1>. USE DEF DeviceHasValues, Device!Idle, Device!Become, Device!BecomeOverridden, Device!dev
<1>1. ASSUME NEW new \in Values, Device!ReportUpdate(new)
      PROVE  DeviceHasValues'
  <2>. USE <1>1 DEF Device!ReportUpdate
  <2>1. CASE Device!PollUnknown(new)         BY <2>1 DEF Device!PollUnknown
  <2>2. CASE Device!PollIgnored(new)         BY <2>2 DEF Device!PollIgnored
  <2>3. CASE Device!PollConfirms(new)        BY <2>3 DEF Device!PollConfirms
  <2>4. CASE Device!PollContradicts(new)     BY <2>4 DEF Device!PollContradicts
  <2>5. CASE Device!PollAnticipates(new)     BY <2>5 DEF Device!PollAnticipates
  <2>6. CASE Device!PollOverrides(new)       BY <2>6 DEF Device!PollOverrides
  <2>7. CASE Device!PollRestores(new)        BY <2>7 DEF Device!PollRestores
  <2>8. CASE Device!PollOverridesAgain(new)  BY <2>8 DEF Device!PollOverridesAgain
  <2>. QED BY <2>1, <2>2, <2>3, <2>4, <2>5, <2>6, <2>7, <2>8
<1>2. CASE Device!Receive
  BY <1>2 DEF Device!Receive, Device!TakeSetting, Device!TakeSameSetting,
              Device!StoreSetting, Device!Yields
<1>3. CASE Device!RejectWrongType  BY <1>3 DEF Device!RejectWrongType
<1>4. CASE Device!FinishReport     BY <1>4 DEF Device!FinishReport
<1>5. CASE Device!ForwardSetting   BY <1>5 DEF Device!ForwardSetting
<1>6. CASE Device!ReassertSetting  BY <1>6 DEF Device!ReassertSetting
<1>7. CASE Device!ExpireOverride   BY <1>7 DEF Device!ExpireOverride
<1>8. CASE \E c \in Clients, v \in Values \cup {WrongType} : Device!SendSetting(c, v)
  BY <1>8 DEF Device!SendSetting
<1>9. CASE Device!DriverReply      BY <1>9 DEF Device!DriverReply
<1>10. CASE Device!ResetState      BY <1>10 DEF Device!ResetState
<1>11. CASE Device!Tick            BY <1>11 DEF Device!Tick
<1>12. CASE UNCHANGED Device!vars  BY <1>12 DEF Device!vars
<1>. QED
  BY <1>1, <1>2, <1>3, <1>4, <1>5, <1>6, <1>7, <1>8, <1>9, <1>10, <1>11, <1>12
  DEF Device!Next

\* Nor does a step of the driver.
LEMMA HardwareKeepsValues ==
  DeviceHasValues /\ HardwareHasValues /\ [Next]_vars => HardwareHasValues'
<1>. SUFFICES ASSUME DeviceHasValues, HardwareHasValues, [Next]_vars
              PROVE  HardwareHasValues'
  OBVIOUS
<1>. USE DEF HardwareHasValues
<1>1. CASE Write
  BY <1>1 DEF Write, Device!DriverReply, DeviceHasValues
<1>2. CASE Written
  BY <1>2 DEF Written
<1>3. CASE Fails
  BY <1>3 DEF Fails
<1>4. CASE \E v \in Shown : Touch(v)
  BY <1>4 DEF Shown, Touch
<1>5. CASE Crash
  BY <1>5 DEF Crash
<1>6. CASE \/ NextSetting(Returns) \/ NextSetting(Receives)
           \/ NextSetting(Device!ExpireOverride)
           \/ ReplyWhileOffline \/ Poll \/ Connected \/ ConnectFails \/ PauseEnds
           \/ Restart \/ Tick \/ CalmDown
           \/ (\E c \in Clients, v \in Values \cup {WrongType} : Send(c, v))
           \/ UNCHANGED vars
  <2>1. UNCHANGED <<hw, writing>>
    BY <1>6 DEF NextSetting, ReplyWhileOffline, Poll, Connected, ConnectFails, PauseEnds,
                Restart, Tick, CalmDown, Send, vars
  <2>. QED
    BY <2>1
<1>. QED
  BY <1>1, <1>2, <1>3, <1>4, <1>5, <1>6 DEF Next

-----------------------------------------------------------------------------
\* The driver polls only when it is done with the last setting, and otherwise
\* uses its device as OverridableDevice is used: each of its steps is a step of
\* the device, or leaves the device alone.
THEOREM DriverUsesDevice == Spec => ImplementsDevice
<1>1. Init => Device!Init /\ DeviceHasValues /\ HardwareHasValues
  BY DEF Init, Device!Init, DeviceHasValues, HardwareHasValues, Shown
<1>2. HardwareHasValues /\ [Next]_vars => [Device!Next]_(Device!vars)
  <2>. SUFFICES ASSUME HardwareHasValues, Next
                PROVE  [Device!Next]_(Device!vars)
    BY DEF vars, device, Device!vars, Device!dev
  <2>1. CASE NextSetting(Returns)
    BY <2>1 DEF NextSetting, Returns, Device!Next
  <2>2. CASE NextSetting(Receives)
    BY <2>2 DEF NextSetting, Receives, Device!Next
  <2>3. CASE NextSetting(Device!ExpireOverride)
    BY <2>3 DEF NextSetting, Device!Next
  <2>4. CASE ReplyWhileOffline
    BY <2>4 DEF ReplyWhileOffline, Device!Next
  <2>5. CASE Write
    BY <2>5 DEF Write, Device!Next
  <2>6. CASE Poll
    BY <2>6 DEF Poll, Device!Next, HardwareHasValues
  <2>7. CASE Crash
    BY <2>7 DEF Crash, Device!Next, device, Device!vars, Device!dev
  <2>8. CASE Restart
    BY <2>8 DEF Restart, Device!Next
  <2>9. CASE \E c \in Clients, v \in Values \cup {WrongType} : Send(c, v)
    BY <2>9 DEF Send, Device!Next
  <2>10. CASE Tick
    BY <2>10 DEF Tick, Device!Next
  <2>11. CASE \/ Written \/ Connected \/ Fails \/ ConnectFails \/ PauseEnds
              \/ (\E v \in Shown : Touch(v)) \/ CalmDown
    BY <2>11 DEF Written, Connected, Fails, ConnectFails, PauseEnds, Touch, CalmDown,
                 device, Device!vars, Device!dev
  <2>. QED
    BY <2>1, <2>2, <2>3, <2>4, <2>5, <2>6, <2>7, <2>8, <2>9, <2>10, <2>11 DEF Next
<1>. QED
  BY <1>1, <1>2, DeviceKeepsValues, HardwareKeepsValues, PTL
  DEF Spec, ImplementsDevice, Device!Spec

-----------------------------------------------------------------------------

\* The error device is right whenever the driver runs, and no request is under
\* way without a connection: Fails, the only way out of managing that is not a
\* panic, ends the request and reports the error.
THEOREM ErrorShown == Spec => []ErrorIsShown
<1>1. Init => ErrorIsShown
  BY DEF Init, ErrorIsShown
<1>2. ErrorIsShown /\ [Next]_vars => ErrorIsShown'
  <2>. SUFFICES ASSUME ErrorIsShown, [Next]_vars
                PROVE  ErrorIsShown'
    OBVIOUS
  <2>1. CASE \/ NextSetting(Returns) \/ NextSetting(Receives)
             \/ NextSetting(Device!ExpireOverride)
             \/ ReplyWhileOffline \/ Poll \/ Tick \/ CalmDown
             \/ (\E c \in Clients, v \in Values \cup {WrongType} : Send(c, v))
             \/ (\E v \in Shown : Touch(v))
             \/ UNCHANGED vars
    <3>1. UNCHANGED <<mode, writing, failing>>
      BY <2>1 DEF NextSetting, ReplyWhileOffline, Poll, Tick, CalmDown, Send, Touch, vars
    <3>. QED
      BY <3>1 DEF ErrorIsShown
  <2>2. CASE Write
    BY <2>2 DEF Write, ErrorIsShown
  <2>3. CASE Written
    BY <2>3 DEF Written, ErrorIsShown
  <2>4. CASE Connected
    BY <2>4 DEF Connected, ErrorIsShown
  <2>5. CASE Fails
    BY <2>5 DEF Fails, ErrorIsShown
  <2>6. CASE ConnectFails \/ PauseEnds
    BY <2>6 DEF ConnectFails, PauseEnds, ErrorIsShown
  <2>7. CASE Crash \/ Restart
    BY <2>7 DEF Crash, Restart, ErrorIsShown
  <2>. QED
    BY <2>1, <2>2, <2>3, <2>4, <2>5, <2>6, <2>7 DEF Next
<1>. QED
  BY <1>1, <1>2, PTL DEF Spec

-----------------------------------------------------------------------------
(* What is proved of the device holds for this driver's.                   *)

\* The theorems' device is the driver's.
LEMMA SameDevice == Device!Spec => P!Spec
<1>1. Device!Init => P!Init
  BY DEF Device!Init, P!Init, Device!Idle, P!Idle
<1>2. [Device!Next]_(Device!vars) => [P!Next]_(P!vars)
  BY DEF Device!Next, P!Next, Device!vars, P!vars, Device!dev, P!dev,
     Device!Idle, P!Idle, Device!NextDeadline, P!NextDeadline, Device!Become, P!Become,
     Device!BecomeOverridden, P!BecomeOverridden, Device!Reply, P!Reply,
     Device!ReportUpdate, P!ReportUpdate, Device!PollUnknown, P!PollUnknown,
     Device!PollIgnored, P!PollIgnored, Device!PollConfirms, P!PollConfirms, 
     Device!PollContradicts, P!PollContradicts, Device!PollAnticipates, P!PollAnticipates,
     Device!PollOverrides, P!PollOverrides, Device!PollRestores, P!PollRestores,
     Device!PollOverridesAgain, P!PollOverridesAgain, Device!Receiving, P!Receiving,
     Device!RejectWrongType, P!RejectWrongType, Device!Yields, P!Yields,
     Device!TakeSetting, P!TakeSetting, Device!TakeSameSetting, P!TakeSameSetting,
     Device!StoreSetting, P!StoreSetting, Device!FinishReport, P!FinishReport, 
     Device!ForwardSetting, P!ForwardSetting, Device!ReassertSetting, P!ReassertSetting,
     Device!ExpireOverride, P!ExpireOverride, Device!SendSetting, P!SendSetting,
     Device!DriverReply, P!DriverReply, Device!ResetState, P!ResetState,
     Device!Tick, P!Tick, Device!Receive, P!Receive
<1>. QED
  BY <1>1, <1>2, PTL DEF Device!Spec, P!Spec

\* Whatever the connection does, and whenever the driver panics and is started
\* again: clients read what the device holds, an override is visible, every
\* request is in one place and answered with what was asked for, and only
\* settings and further overrides replace what the device is to show.
THEOREM DeviceOfSwitch ==
  Spec => /\ [](Device!BackendInStep /\ Device!BackendShowsHardware)
          /\ [](Device!RequestsAccounted /\ Device!RightReply)
          /\ Device!TargetKept
<1>1. Spec => Device!Spec
  BY DriverUsesDevice DEF ImplementsDevice
<1>2. P!Spec => [](Device!BackendInStep /\ Device!BackendShowsHardware)
  <2>1. P!BackendInStep /\ P!BackendShowsHardware => Device!BackendInStep /\ Device!BackendShowsHardware
    BY DEF P!BackendInStep, P!BackendShowsHardware, Device!BackendInStep, Device!BackendShowsHardware
  <2>2. P!Spec => []P!BackendInStep
    BY P!BackendTruthful
  <2>3. P!Spec => []P!BackendShowsHardware
    BY P!HardwareIsShown
  <2>. QED
    BY <2>1, <2>2, <2>3, PTL
<1>3. P!Spec => [](Device!RequestsAccounted /\ Device!RightReply)
  <2>1. P!RequestsAccounted /\ P!RightReply => Device!RequestsAccounted /\ Device!RightReply
    BY DEF P!RequestsAccounted, P!RightReply, P!InQueue,
           Device!RequestsAccounted, Device!RightReply, Device!InQueue
  <2>2. P!Spec => []P!RequestsAccounted
    BY P!RequestsAreAccounted
  <2>3. P!Spec => []P!RightReply
    BY P!RepliesAreRight
  <2>. QED
    BY <2>1, <2>2, <2>3, PTL
<1>4. P!Spec => Device!TargetKept
  <2>1. P!TargetKept => Device!TargetKept
    BY DEF P!TargetKept, P!Target, P!vars, Device!TargetKept, Device!Target, Device!vars
  <2>. QED
    BY <2>1, P!TargetIsKept
<1>. QED
  BY <1>1, <1>2, <1>3, <1>4, SameDevice, PTL

\* A request to the hardware carries out, clipped, the setting that the backend
\* shows: it begins when the setting has been published, and until it ends the
\* driver neither polls nor asks for the next setting.
THEOREM WritesAreShown == Spec => []WritesWhatIsShown
<1>1. Init => WritesWhatIsShown
  BY DEF Init, WritesWhatIsShown
<1>2. Spec => []P!WriteIsPublished
  BY DriverUsesDevice, SameDevice, P!WritesArePublished DEF ImplementsDevice
<1>3. P!WriteIsPublished /\ ErrorIsShown /\ WritesWhatIsShown /\ [Next]_vars => WritesWhatIsShown'
  <2>. SUFFICES ASSUME P!WriteIsPublished, ErrorIsShown, WritesWhatIsShown, [Next]_vars
                PROVE  WritesWhatIsShown'
    OBVIOUS
  <2>. USE DEF WritesWhatIsShown
  <2>1. CASE \/ NextSetting(Returns) \/ NextSetting(Receives) \/ NextSetting(Device!ExpireOverride)
             \/ Poll
    BY <2>1 DEF NextSetting, Poll
  <2>2. CASE Write
    BY <2>2 DEF Write, P!WriteIsPublished, P!Idle, Device!Idle, Device!DriverReply, Device!dev
  <2>3. CASE Written \/ Fails \/ Crash
    BY <2>3 DEF Written, Fails, Crash
  <2>4. CASE ReplyWhileOffline \/ Restart
    BY <2>4 DEF ReplyWhileOffline, Restart, ErrorIsShown
  <2>5. CASE \/ Connected \/ ConnectFails \/ PauseEnds \/ CalmDown \/ UNCHANGED vars
             \/ (\E v \in Shown : Touch(v))
    BY <2>5 DEF Connected, ConnectFails, PauseEnds, CalmDown, Touch, vars, device
  <2>6. CASE \/ (\E c \in Clients, v \in Values \cup {WrongType} : Send(c, v)) \/ Tick
    BY <2>6 DEF Send, Tick, Device!SendSetting, Device!Tick, Device!dev
  <2>. QED
    BY <2>1, <2>2, <2>3, <2>4, <2>5, <2>6 DEF Next
<1>. QED
  BY <1>1, <1>2, <1>3, ErrorShown, PTL DEF Spec
=============================================================================
