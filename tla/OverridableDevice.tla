-------------------------- MODULE OverridableDevice --------------------------
(***************************************************************************)
(* The OverridableDevice of drmem-api (driver/overridable_device.rs): a    *)
(* settable device whose hardware is also controlled from outside DrMem.   *)
(*                                                                         *)
(* Clients (the core task and the logic nodes) queue settings on an mpsc   *)
(* channel and each waits for its reply.  The driver task polls the        *)
(* hardware and gives each reading to report_update, and it asks           *)
(* next_setting for the next value to send to the hardware.  Both methods  *)
(* take the device by &mut, so they never overlap; but next_setting has    *)
(* one await per state and select! may cancel it at any of them, so each   *)
(* of its awaits is an action of its own and a reading can arrive between  *)
(* two of them.  report_update is one action: nothing else reaches the     *)
(* device while it waits for the backend.                                  *)
(***************************************************************************)
EXTENDS DeviceParameters

VARIABLES
  state,     \* the variant of State<T>
  value,     \* what get_last returns: the variant's value or `override`
  setting,   \* the saved setting of Overridden
  left,      \* time until Overridden's deadline, saturating at zero
  resp,      \* the responder of UnknownTrans and SettingTrans
  queue,     \* clients whose requests are in the setting channel, in order
  ask,       \* what each client asked for and has no answer to
  handed,    \* the transaction next_setting returned to the driver
  reported,  \* the device's last value in the backend
  seen       \* the last reading given to report_update

dev == <<state, value, setting, left, resp>>
vars == <<state, value, setting, left, resp, queue, ask, handed, reported, seen>>

States == {"Unknown", "UnknownTrans", "Synced", "SyncedTrans",
           "UnreportedSetting", "Setting", "SettingTrans",
           "ReassertSetting", "Overridden"}

\* The driver is not working on a setting.
Idle == [val |-> NoValue, resp |-> NoClient]

\* Distance from now to the deadline a new override gets.
NextDeadline == IF Timed THEN OverrideDuration ELSE 0

Init ==
  /\ \/ state = "Unknown" /\ value = NoValue
     \/ state = "SettingTrans" /\ value \in Values
  /\ setting = NoValue
  /\ left = 0
  /\ resp = NoClient
  /\ queue = <<>>
  /\ ask = [c \in Clients |-> NoValue]
  /\ handed = Idle
  /\ reported = NoValue
  /\ seen = NoValue

-----------------------------------------------------------------------------
(* Moves between variants. *)

\* Enter a variant that holds the value v and the responder r.
Become(s, v, r) ==
  /\ state' = s
  /\ value' = v
  /\ resp' = r
  /\ setting' = NoValue
  /\ left' = 0

\* Enter Overridden: the hardware shows v, s is to be restored.
BecomeOverridden(s, v) ==
  /\ state' = "Overridden"
  /\ value' = v
  /\ setting' = s
  /\ left' = NextDeadline
  /\ resp' = NoClient

\* A reply reaches client c (nobody, when c is NoClient).
Reply(c) == ask' = [d \in Clients |-> IF d = c THEN NoValue ELSE ask[d]]

-----------------------------------------------------------------------------
(* report_update(new), one operator per arm. *)

\* The first reading of an unknown device becomes its value.
PollUnknown(new) ==
  /\ state = "Unknown"
  /\ Become("Synced", new, NoClient)
  /\ reported' = new
  /\ UNCHANGED ask

\* Defect: further readings of overridden hardware are ignored.
PollIgnoredWhileOverridden(new) ==
  /\ \/ state = "UnknownTrans"
     \/ state \in {"Synced", "SyncedTrans"} /\ new = value
     \/ state \in {"SettingTrans", "ReassertSetting", "UnreportedSetting"} /\ new # value
     \/ state = "Overridden" /\ new # setting
  /\ UNCHANGED <<dev, ask, reported>>

\* Readings that change nothing.
PollIgnored(new) ==
  /\ \/ state = "UnknownTrans"
     \/ state \in {"Synced", "SyncedTrans"} /\ new = value
     \/ state \in {"SettingTrans", "ReassertSetting", "UnreportedSetting"} /\ new # value
     \/ state = "Overridden" /\ new # setting /\ new = value
  /\ UNCHANGED <<dev, ask, reported>>

\* The hardware took the setting, which the backend already has.
PollConfirms(new) ==
  /\ state \in {"Setting", "ReassertSetting", "UnreportedSetting"}
  /\ new = value
  /\ Become("Synced", new, NoClient)
  /\ UNCHANGED <<ask, reported>>

\* The hardware did not take the setting: assert it again.
PollContradicts(new) ==
  /\ state = "Setting"
  /\ new # value
  /\ Become("ReassertSetting", value, NoClient)
  /\ UNCHANGED <<ask, reported>>

\* Defect: the responder is dropped without a reply.
PollAnticipatesSilently(new) ==
  /\ state = "SettingTrans"
  /\ new = value
  /\ Become("SyncedTrans", value, NoClient)
  /\ UNCHANGED <<ask, reported>>

\* The hardware already has the setting that was about to be forwarded.
PollAnticipates(new) ==
  /\ state = "SettingTrans"
  /\ new = value
  /\ Reply(resp)
  /\ Become("SyncedTrans", value, NoClient)
  /\ UNCHANGED reported

\* Defect: the new reading is not reported.
PollOverridesUnreported(new) ==
  /\ state \in {"Synced", "SyncedTrans"}
  /\ new # value
  /\ BecomeOverridden(value, new)
  /\ UNCHANGED <<ask, reported>>

\* Someone else moved the hardware.
PollOverrides(new) ==
  /\ state \in {"Synced", "SyncedTrans"}
  /\ new # value
  /\ BecomeOverridden(value, new)
  /\ reported' = new
  /\ UNCHANGED ask

\* The hardware is back at the saved setting.
PollRestores(new) ==
  /\ state = "Overridden"
  /\ new = setting
  /\ Become("Synced", setting, NoClient)
  /\ reported' = new
  /\ UNCHANGED ask

\* Overridden hardware moved again.  The code saves the previous override
\* (`value`), not `setting`, as the setting to go back to.
PollOverridesAgain(new) ==
  /\ state = "Overridden"
  /\ new # setting
  /\ new # value
  /\ BecomeOverridden(value, new)
  /\ reported' = new
  /\ UNCHANGED ask

ReportUpdate(new) ==
  /\ handed = Idle
  /\ \/ PollUnknown(new)
     \/ PollIgnored(new)
     \/ PollConfirms(new)
     \/ PollContradicts(new)
     \/ PollAnticipates(new)
     \/ PollOverrides(new)
     \/ PollRestores(new)
     \/ PollOverridesAgain(new)
  /\ seen' = new
  /\ UNCHANGED <<queue, handed>>

-----------------------------------------------------------------------------
(* next_setting(), one action per await or return.  All need the driver    *)
(* to have finished with the previous transaction.                         *)

\* States whose await is set_stream.next().
Receiving == {"Unknown", "Setting", "Synced", "Overridden"}

\* The stream answers requests of the wrong type itself, with TypeError.
RejectWrongType ==
  /\ handed = Idle
  /\ state \in Receiving
  /\ queue # <<>>
  /\ ask[Head(queue)] = WrongType
  /\ Reply(Head(queue))
  /\ queue' = Tail(queue)
  /\ UNCHANGED <<dev, handed, reported, seen>>

\* The stream yields request c for value v.
Yields(c, v) ==
  /\ handed = Idle
  /\ queue # <<>>
  /\ c = Head(queue)
  /\ v = ask[c]
  /\ v # WrongType
  /\ queue' = Tail(queue)
  /\ UNCHANGED <<handed, reported, seen>>

\* Defect: the old value is forwarded with the new responder.
TakeSettingStale(c, v) ==
  /\ \/ state = "Unknown" /\ Become("UnknownTrans", v, c)
     \/ state \in {"Setting", "Synced"} /\ v # value /\ Become("SettingTrans", value, c)
  /\ Yields(c, v)
  /\ UNCHANGED ask

\* A setting that may differ from the hardware is forwarded, so its
\* responder is kept for the driver.
TakeSetting(c, v) ==
  /\ \/ state = "Unknown" /\ Become("UnknownTrans", v, c)
     \/ state \in {"Setting", "Synced"} /\ v # value /\ Become("SettingTrans", v, c)
  /\ Yields(c, v)
  /\ UNCHANGED ask

\* A setting equal to the current one is acknowledged at once.
TakeSameSetting(c, v) ==
  /\ v = value
  /\ \/ state = "Setting" /\ Become("UnreportedSetting", v, NoClient)
     \/ state = "Synced" /\ Become("SyncedTrans", v, NoClient)
  /\ Yields(c, v)
  /\ Reply(c)

\* Defect: storing a setting restarts the override's timer.
StoreSettingExtends(c, v) ==
  /\ state = "Overridden"
  /\ setting' = v
  /\ left' = NextDeadline
  /\ UNCHANGED <<state, value, resp>>
  /\ Yields(c, v)
  /\ Reply(c)


\* A setting that comes during an override is stored and acknowledged.
StoreSetting(c, v) ==
  /\ state = "Overridden"
  /\ setting' = v
  /\ UNCHANGED <<state, value, left, resp>>
  /\ Yields(c, v)
  /\ Reply(c)

\* The report of a state's value completes, in the states that return nothing.
FinishReport ==
  /\ handed = Idle
  /\ \/ state = "UnreportedSetting" /\ Become("Setting", value, NoClient)
     \/ state = "SyncedTrans" /\ Become("Synced", value, NoClient)
  /\ reported' = value
  /\ UNCHANGED <<queue, ask, handed, seen>>

\* The report completes and the setting goes to the driver with its responder.
ForwardSetting ==
  /\ handed = Idle
  /\ state \in {"UnknownTrans", "SettingTrans"}
  /\ Become("Setting", value, NoClient)
  /\ handed' = [val |-> value, resp |-> resp]
  /\ reported' = value
  /\ UNCHANGED <<queue, ask, seen>>

\* A setting the hardware did not take goes to the driver again.
ReassertSetting ==
  /\ handed = Idle
  /\ state = "ReassertSetting"
  /\ Become("Setting", value, NoClient)
  /\ handed' = [val |-> value, resp |-> NoClient]
  /\ UNCHANGED <<queue, ask, reported, seen>>

\* Defect: the end of an override forgets the saved setting.
ExpireOverrideForgets ==
  /\ handed = Idle
  /\ Timed
  /\ state = "Overridden"
  /\ left = 0
  /\ Become("Synced", value, NoClient)
  /\ UNCHANGED <<queue, ask, handed, reported, seen>>

\* The deadline of an override passes.
ExpireOverride ==
  /\ handed = Idle
  /\ Timed
  /\ state = "Overridden"
  /\ left = 0
  /\ IF setting # value
     THEN Become("SettingTrans", setting, NoClient)
     ELSE Become("Synced", value, NoClient)
  /\ UNCHANGED <<queue, ask, handed, reported, seen>>

-----------------------------------------------------------------------------
(* The device's surroundings. *)

\* A client puts a setting in the channel, waiting when it is full.
SendSetting(c, v) ==
  /\ ask[c] = NoValue
  /\ Len(queue) < ChanSize
  /\ ask' = [ask EXCEPT ![c] = v]
  /\ queue' = Append(queue, c)
  /\ UNCHANGED <<dev, handed, reported, seen>>

\* The driver answers the transaction it was given and is done with it.
DriverReply ==
  /\ handed # Idle
  /\ Reply(handed.resp)
  /\ handed' = Idle
  /\ UNCHANGED <<dev, queue, reported, seen>>

\* The driver manager catches a panic of the driver and resets its devices;
\* responders that were held are dropped, which their clients see.
ResetState ==
  /\ Become("Unknown", NoValue, NoClient)
  /\ ask' = [c \in Clients |-> IF c \in {resp, handed.resp} THEN NoValue ELSE ask[c]]
  /\ handed' = Idle
  /\ UNCHANGED <<queue, reported, seen>>

Tick ==
  /\ left > 0
  /\ left' = left - 1
  /\ UNCHANGED <<state, value, setting, resp, queue, ask, handed, reported, seen>>

\* The stream yields a request, in any state that awaits it.
Receive ==
  \E c \in Clients, v \in Values :
    TakeSetting(c, v) \/ TakeSameSetting(c, v) \/ StoreSetting(c, v)

Next ==
  \/ \E new \in Values : ReportUpdate(new)
  \/ Receive
  \/ RejectWrongType
  \/ FinishReport
  \/ ForwardSetting
  \/ ReassertSetting
  \/ ExpireOverride
  \/ \E c \in Clients, v \in Values \cup {WrongType} : SendSetting(c, v)
  \/ DriverReply
  \/ ResetState
  \/ Tick

Spec == Init /\ [][Next]_vars

\* A driver keeps calling next_setting and finishes each transaction it is
\* given.  Its select! tries a random branch first, so a branch that is ready
\* again and again (the channel, between polls and reasserts) is taken.
Fairness ==
  /\ WF_vars(FinishReport \/ ForwardSetting \/ ReassertSetting)
  /\ SF_vars(Receive \/ RejectWrongType)
  /\ WF_vars(ExpireOverride)
  /\ WF_vars(DriverReply)
  /\ WF_vars(Tick)

FairSpec == Spec /\ Fairness

-----------------------------------------------------------------------------
(* Properties. *)

\* Every variable is in its type, and the fields a variant of State<T> does
\* not have are empty.
TypeOK ==
  /\ state \in States
  /\ value \in Values \cup {NoValue}
  /\ setting \in Values \cup {NoValue}
  /\ left \in Nat
  /\ resp \in Clients \cup {NoClient}
  /\ queue \in Seq(Clients)
  /\ ask \in [Clients -> Values \cup {WrongType, NoValue}]
  /\ handed \in [val : Values \cup {NoValue}, resp : Clients \cup {NoClient}]
  /\ reported \in Values \cup {NoValue}
  /\ seen \in Values \cup {NoValue}
  /\ state = "Unknown" <=> value = NoValue
  /\ state = "Overridden" <=> setting # NoValue
  /\ resp # NoClient => state \in {"UnknownTrans", "SettingTrans"}
  /\ handed # Idle => handed.val # NoValue

\* In every state with no report outstanding, clients of the backend read
\* exactly the value the device holds: the two never drift apart, whichever
\* readings, settings, expiries and cancelled awaits led there.
BackendInStep ==
  state \in {"Synced", "Setting", "ReassertSetting", "UnreportedSetting", "Overridden"}
    => reported = value

\* When no setting is being applied, what the backend shows is what the
\* hardware was last seen to do: an override by a person is always visible,
\* and a setting stored during an override is never shown as the value.
BackendShowsHardware == state \in {"Synced", "Overridden"} => reported = seen

InQueue(c) == \E i \in 1..Len(queue) : queue[i] = c

\* A waiting client's request is in exactly one place (the channel, the
\* device, the driver), and a client with no request is in none: no responder
\* is lost, kept after its reply, or answered twice.
RequestsAccounted ==
  /\ \A c \in Clients :
       (ask[c] # NoValue) <=> (InQueue(c) \/ resp = c \/ handed.resp = c)
  /\ \A i, j \in 1..Len(queue) : queue[i] = queue[j] => i = j
  /\ resp # NoClient => ~InQueue(resp) /\ resp # handed.resp
  /\ handed.resp # NoClient => ~InQueue(handed.resp)

\* A responder travels with the value its client asked for: nobody is told
\* that a value other than its own was set.
RightReply ==
  /\ resp # NoClient => ask[resp] = value
  /\ handed.resp # NoClient => ask[handed.resp] = handed.val

\* The driver only ever writes a value the backend already shows.
WriteIsPublished ==
  handed # Idle => state = "Setting" /\ handed.val = value /\ handed.val = reported

\* The value the hardware is to be brought (back) to.
Target == IF state = "Overridden" THEN setting ELSE value

\* The target changes only when a setting is taken from the channel, when the
\* device leaves or enters Unknown, or when overridden hardware moves again: no
\* poll, expiry, reassertion or cancelled await replaces what clients asked for.
TargetKept ==
  [][Target' # Target =>
       \/ Len(queue') < Len(queue)
       \/ "Unknown" \in {state, state'}
       \/ state = "Overridden" /\ state' = "Overridden" /\ value' # value]_vars

\* What the comments say: an override ends with a "switch back to the last
\* setting", so only a setting may replace the target, not a second override.
LastSettingKept ==
  [][Target' # Target =>
       Len(queue') < Len(queue) \/ "Unknown" \in {state, state'}]_vars

\* With an override_duration, no override outlasts its deadline: settings that
\* keep coming during it are stored without postponing it.
OverrideEnds ==
  \A v \in Values : (state = "Overridden" /\ value = v) ~> ~(state = "Overridden" /\ value = v)

=============================================================================
