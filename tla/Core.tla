-------------------------------- MODULE Core --------------------------------
(***************************************************************************)
(* The core task (drmemd/core.rs) between drivers and clients, with the    *)
(* start-up sequence of main.rs, the driver tasks of driver.rs, the        *)
(* registration and settings of the simple backend, and the request        *)
(* channels of drmem-api.                                                  *)
(*                                                                         *)
(* The core task is one loop.  It takes a request of a driver or of a      *)
(* client and finishes it before the next: while it handles SetDevice it   *)
(* waits for the reply of the device's driver and serves nobody else.      *)
(* Drivers are started one at a time, each registering its devices before  *)
(* a barrier lets the next one start; clients start after the last.        *)
(*                                                                         *)
(* A sender that waits for room in an mpsc channel is served in turn, so   *)
(* it is modelled as already in the channel.                               *)
(***************************************************************************)
EXTENDS Naturals, Sequences

CONSTANTS
  NumDrivers,   \* [[driver]] sections of the configuration, in order
  Owner,        \* Owner[i]: the name of the driver of section i
  Wants,        \* Wants[i]: the devices section i's driver registers, in order
  Devices,      \* device names
  ReadOnly,     \* the devices that are registered without a setting channel
  Requesters,   \* GraphQL requests and logic nodes: the core's clients
  NoDriver,     \* the owner of a device that is not registered
  NoRequester   \* no client

Drivers == 1..NumDrivers

ASSUME DriversAssumption == NumDrivers \in Nat \ {0}
ASSUME WantsAssumption == Wants \in [Drivers -> Seq(Devices)]
ASSUME OwnerAssumption == \A i \in Drivers : Owner[i] # NoDriver
ASSUME NoRequesterAssumption == NoRequester \notin Requesters

VARIABLES
  started,   \* the section being started; NumDrivers + 1 when clients may run
  drv,       \* the state of each section's task
  step,      \* devices each task has registered
  owner,     \* DeviceInfo.owner
  chan,      \* the task that receives from DeviceInfo.tx_setting, or 0
  drvReq,    \* the task whose request is in the core's channel, or 0
  clntReq,   \* clients whose requests are in the core's channel, in order
  want,      \* what each client asked for and has no answer to
  held,      \* the setting channel each client (a logic node) has obtained
  core,      \* the client whose SetDevice the core waits for, or NoRequester
  settings   \* clients whose settings are in each device's channel, in order

coreVars == <<started, drv, step, owner, chan, drvReq, clntReq, want, held, core, settings>>
drivers == <<started, drv, step, owner, chan, drvReq>>
clients == <<clntReq, want, held, core, settings>>

Kinds == {"info", "chan", "set", "send"}
Nothing == [kind |-> "nothing", dev |-> NoDriver]
NoChan == [dev |-> NoDriver, task |-> 0]

CoreInit ==
  /\ started = 1
  /\ drv = [i \in Drivers |-> IF i = 1 THEN "registering" ELSE "unborn"]
  /\ step = [i \in Drivers |-> 0]
  /\ owner = [d \in Devices |-> NoDriver]
  /\ chan = [d \in Devices |-> 0]
  /\ drvReq = 0
  /\ clntReq = <<>>
  /\ want = [c \in Requesters |-> Nothing]
  /\ held = [c \in Requesters |-> NoChan]
  /\ core = NoRequester
  /\ settings = [d \in Devices |-> <<>>]

-----------------------------------------------------------------------------
(* Start-up and registration. *)

\* Config::try_from refuses the section's configuration.
ConfigError(i) ==
  /\ drv[i] = "registering"
  /\ step[i] = 0
  /\ drv' = [drv EXCEPT ![i] = "refused"]
  /\ UNCHANGED <<started, step, owner, chan, drvReq, clients>>

\* RequestChan::add_*_device sends the next registration to the core.
AskToRegister(i) ==
  /\ drv[i] = "registering"
  /\ step[i] < Len(Wants[i])
  /\ drvReq = 0
  /\ drv' = [drv EXCEPT ![i] = "asking"]
  /\ drvReq' = i
  /\ UNCHANGED <<started, step, owner, chan, clients>>

\* register_read_only_device and register_read_write_device.  A new device,
\* or one with the same owner, is registered; one that can be set gets a new
\* setting channel in place of its old one.  Any other device is in use, and
\* the registration fails.
Register(i, d) ==
  IF owner[d] \in {NoDriver, Owner[i]}
  THEN /\ owner' = [owner EXCEPT ![d] = Owner[i]]
       /\ chan' = IF d \in ReadOnly THEN chan ELSE [chan EXCEPT ![d] = i]
       /\ step' = [step EXCEPT ![i] = @ + 1]
       /\ drv' = [drv EXCEPT ![i] = "registering"]
  ELSE /\ drv' = [drv EXCEPT ![i] = "refused"]
       /\ UNCHANGED <<step, owner, chan>>

\* The core, when it is waiting for no driver, handles a driver's request.
HandleDriverRequest ==
  /\ core = NoRequester
  /\ drvReq # 0
  /\ Register(drvReq, Wants[drvReq][step[drvReq] + 1])
  /\ drvReq' = 0
  /\ UNCHANGED <<started, clients>>

AtBarrier(i) ==
  drv[i] = "refused" \/ (drv[i] = "registering" /\ step[i] = Len(Wants[i]))

\* Main and the task meet at the barrier.  The task runs its driver, or ends
\* and drops the receivers of the devices it had registered; main goes on to
\* the next section, and after the last to the logic blocks and GraphQL.
PassBarrier ==
  /\ started \in Drivers
  /\ AtBarrier(started)
  /\ drv' = [i \in Drivers |->
       IF i = started THEN (IF drv[i] = "refused" THEN "failed" ELSE "running")
       ELSE IF i = started + 1 THEN "registering"
       ELSE drv[i]]
  /\ started' = started + 1
  /\ UNCHANGED <<step, owner, chan, drvReq, clients>>

-----------------------------------------------------------------------------
(* Clients. *)

\* Defect: clients do not wait for the drivers to have registered.
ClientsFromTheStart == TRUE

ClientsMayRun == started = NumDrivers + 1

\* A client sends a request to the core: QueryDeviceInfo or MonitorDevice
\* ("info"), GetSettingChan or SetDevice, and waits for its reply.
AskCore(c, k, d) ==
  /\ ClientsMayRun
  /\ want[c] = Nothing
  /\ want' = [want EXCEPT ![c] = [kind |-> k, dev |-> d]]
  /\ clntReq' = Append(clntReq, c)
  /\ UNCHANGED <<drivers, held, core, settings>>

\* The receiving end of a channel is gone when the task that had it failed.
Open(i) == i # 0 /\ drv[i] # "failed"

\* A logic node sends a setting on the channel it holds.  When the receiver
\* is gone the send fails at once.
SendDirect(c) ==
  /\ want[c] = Nothing
  /\ held[c] # NoChan
  /\ Open(held[c].task)
  /\ want' = [want EXCEPT ![c] = [kind |-> "send", dev |-> held[c].dev]]
  /\ settings' = [settings EXCEPT ![held[c].dev] = Append(@, c)]
  /\ UNCHANGED <<drivers, clntReq, held, core>>

-----------------------------------------------------------------------------
(* The core's handling of client requests. *)

\* The core answers at once: information, a channel, or an error.
AnswerAtOnce(c) ==
  /\ \/ want[c].kind = "info" /\ UNCHANGED held
     \/ want[c].kind = "chan" /\ chan[want[c].dev] = 0 /\ UNCHANGED held
     \/ /\ want[c].kind = "chan"
        /\ chan[want[c].dev] # 0
        /\ held' = [held EXCEPT ![c] = [dev |-> want[c].dev, task |-> chan[want[c].dev]]]
     \/ want[c].kind = "set" /\ ~Open(chan[want[c].dev]) /\ UNCHANGED held
  /\ want' = [want EXCEPT ![c] = Nothing]
  /\ UNCHANGED <<core, settings>>

\* Defect: a setting is queued although nobody will receive it.
ForwardUnchecked(c) ==
  /\ want[c].kind = "set"
  /\ chan[want[c].dev] # 0
  /\ settings' = [settings EXCEPT ![want[c].dev] = Append(@, c)]
  /\ core' = c
  /\ UNCHANGED <<want, held>>

\* set_device sends the setting to the driver; the core will wait.
Forward(c) ==
  /\ want[c].kind = "set"
  /\ Open(chan[want[c].dev])
  /\ settings' = [settings EXCEPT ![want[c].dev] = Append(@, c)]
  /\ core' = c
  /\ UNCHANGED <<want, held>>

HandleClientRequest ==
  /\ core = NoRequester
  /\ clntReq # <<>>
  /\ AnswerAtOnce(Head(clntReq)) \/ Forward(Head(clntReq))
  /\ clntReq' = Tail(clntReq)
  /\ UNCHANGED drivers

-----------------------------------------------------------------------------
(* Running drivers. *)

\* The first setting of device d is answered, or its responder is dropped;
\* the client has its reply, by way of the core if the core was waiting.
Answer(d) ==
  LET c == Head(settings[d]) IN
  /\ settings[d] # <<>>
  /\ settings' = [settings EXCEPT ![d] = Tail(@)]
  /\ want' = [want EXCEPT ![c] = Nothing]
  /\ core' = IF core = c THEN NoRequester ELSE core
  /\ UNCHANGED <<clntReq, held>>

\* A running driver takes a setting of one of its devices and replies.
Serve(d) ==
  /\ chan[d] # 0
  /\ drv[chan[d]] = "running"
  /\ Answer(d)
  /\ UNCHANGED drivers

\* Defect: the core keeps waiting for a reply that was dropped.
CrashUnnoticed(i) ==
  /\ drv[i] = "running"
  /\ drv' = [drv EXCEPT ![i] = "down"]
  /\ \/ UNCHANGED clients
     \/ \E d \in Devices :
          /\ chan[d] = i
          /\ settings[d] # <<>>
          /\ settings' = [settings EXCEPT ![d] = Tail(@)]
          /\ UNCHANGED <<clntReq, want, held, core>>
  /\ UNCHANGED <<started, step, owner, chan, drvReq>>

\* The driver panics, perhaps while it holds a setting it has not replied to.
\* The manager keeps its devices, and so their channels.
Crash(i) ==
  /\ drv[i] = "running"
  /\ drv' = [drv EXCEPT ![i] = "down"]
  /\ \/ UNCHANGED clients
     \/ \E d \in Devices : chan[d] = i /\ Answer(d)
  /\ UNCHANGED <<started, step, owner, chan, drvReq>>

\* After the restart delay the manager creates a new instance.
Restart(i) ==
  /\ drv[i] = "down"
  /\ drv' = [drv EXCEPT ![i] = "running"]
  /\ UNCHANGED <<started, step, owner, chan, drvReq, clients>>

CoreNext ==
  \/ \E i \in Drivers : ConfigError(i) \/ AskToRegister(i)
  \/ HandleDriverRequest
  \/ PassBarrier
  \/ \E c \in Requesters, k \in {"info", "chan", "set"}, d \in Devices : AskCore(c, k, d)
  \/ \E c \in Requesters : SendDirect(c)
  \/ HandleClientRequest
  \/ \E d \in Devices : Serve(d)
  \/ \E i \in Drivers : Crash(i)
  \/ \E i \in Drivers : Restart(i)

CoreSpec == CoreInit /\ [][CoreNext]_coreVars

\* Tasks that can go on do.  A driver that is restarted again and again is
\* assumed to get to its settings at some point.
CoreFairness ==
  /\ \A i \in Drivers : WF_coreVars(AskToRegister(i)) /\ WF_coreVars(Restart(i))
  /\ WF_coreVars(HandleDriverRequest)
  /\ WF_coreVars(PassBarrier)
  /\ WF_coreVars(HandleClientRequest)
  /\ \A d \in Devices : SF_coreVars(Serve(d))

CoreFairSpec == CoreSpec /\ CoreFairness

-----------------------------------------------------------------------------
(* Properties. *)

DriverStates ==
  {"unborn", "registering", "asking", "refused", "running", "down", "failed"}

\* Every variable is in its type.
CoreTypeOK ==
  /\ started \in 1..(NumDrivers + 1)
  /\ drv \in [Drivers -> DriverStates]
  /\ step \in [Drivers -> Nat]
  /\ owner \in [Devices -> {Owner[i] : i \in Drivers} \cup {NoDriver}]
  /\ chan \in [Devices -> 0..NumDrivers]
  /\ drvReq \in 0..NumDrivers
  /\ clntReq \in Seq(Requesters)
  /\ want \in [Requesters -> [kind : Kinds, dev : Devices] \cup {Nothing}]
  /\ held \in [Requesters -> [dev : Devices, task : Drivers] \cup {NoChan}]
  /\ core \in Requesters \cup {NoRequester}
  /\ settings \in [Devices -> Seq(Requesters)]

\* The core never waits for a driver while a driver waits for the core: a
\* setting cannot reach a driver that is still registering, which would leave
\* both waiting for each other, and all clients behind them.
NoWaitCycle ==
  core # NoRequester => \A i \in Drivers : drv[i] \notin {"registering", "asking"}

In(c, q) == \E n \in 1..Len(q) : q[n] = c

\* A client that waits is waiting in exactly one place: for the core to take
\* its request, or for a driver that has its setting (through the core, which
\* then waits too, or directly).  No request is lost, whoever crashes.
WaitsSomewhere ==
  \A c \in Requesters :
    /\ In(c, clntReq) => want[c].kind \in {"info", "chan", "set"} /\ core # c
    /\ core = c => want[c].kind = "set"
    /\ want[c] # Nothing =>
         \/ In(c, clntReq) /\ \A d \in Devices : ~In(c, settings[d])
         \/ /\ In(c, settings[want[c].dev])
            /\ ~In(c, clntReq)
            /\ core = c <=> want[c].kind = "set"

\* The setting channel a logic node holds is the one the device's driver
\* receives from: no driver replaces it behind the node's back.
HeldChannelIsCurrent ==
  \A c \in Requesters : held[c] # NoChan => held[c].task = chan[held[c].dev]

\* A device is never taken over by a driver of another name.
OwnerKeepsDevice ==
  [][\A d \in Devices :
       chan[d] # 0 /\ chan'[d] # chan[d] => Owner[chan'[d]] = Owner[chan[d]]]_coreVars

\* What the documentation of add_rw_device says: a name that is registered is
\* in use, so a running driver keeps the devices it registered.
RegisteredIsInUse ==
  [][\A d \in Devices :
       chan[d] # 0 /\ drv[chan[d]] = "running" => chan'[d] = chan[d]]_coreVars

\* Every client request is answered, although the core serves them one at a
\* time, waits for drivers, and drivers fail to start or crash.
Answered == \A c \in Requesters : (want[c] # Nothing) ~> (want[c] = Nothing)
=============================================================================
