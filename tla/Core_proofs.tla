---------------------------- MODULE Core_proofs ----------------------------
(***************************************************************************)
(* Proofs about Core for any number of sections, any owners and devices    *)
(* they register, and any clients.                                         *)
(***************************************************************************)
EXTENDS Core, TLAPS

USE DriversAssumption, WantsAssumption, OwnerAssumption, NoRequesterAssumption

-----------------------------------------------------------------------------
\* Every variable keeps its type.
THEOREM TypeCorrect == CoreSpec => []CoreTypeOK
<1>1. CoreInit => CoreTypeOK
  BY DEF CoreInit, CoreTypeOK, Drivers, DriverStates, Nothing, NoChan, Kinds
<1>2. CoreTypeOK /\ [CoreNext]_coreVars => CoreTypeOK'
  <2> SUFFICES ASSUME CoreTypeOK, [CoreNext]_coreVars
               PROVE  CoreTypeOK'
    OBVIOUS
  <2> USE DEF CoreTypeOK, drivers, clients
  <2>1. ASSUME NEW i \in Drivers, ConfigError(i)
        PROVE  CoreTypeOK'
    BY <2>1 DEF ConfigError, DriverStates
  <2>2. ASSUME NEW i \in Drivers, AskToRegister(i)
        PROVE  CoreTypeOK'
    <3>1. drvReq' \in 0..NumDrivers
      BY <2>2 DEF AskToRegister, Drivers
    <3>2. drv' \in [Drivers -> DriverStates]
      BY <2>2 DEF AskToRegister, DriverStates
    <3> QED BY <2>2, <3>1, <3>2 DEF AskToRegister
  <2>3. CASE HandleDriverRequest
    <3>1. drvReq \in Drivers
      BY <2>3 DEF HandleDriverRequest, Drivers
    <3>2. ASSUME NEW i \in Drivers, NEW d, Register(i, d)
          PROVE  /\ drv' \in [Drivers -> DriverStates]
                 /\ step' \in [Drivers -> Nat]
                 /\ owner' \in [Devices -> {Owner[j] : j \in Drivers} \cup {NoDriver}]
                 /\ chan' \in [Devices -> 0..NumDrivers]
      <4>1. CASE owner[d] \in {NoDriver, Owner[i]}
        <5>1. /\ owner' = [owner EXCEPT ![d] = Owner[i]]
              /\ chan' \in {chan, [chan EXCEPT ![d] = i]}
              /\ step' = [step EXCEPT ![i] = @ + 1]
              /\ drv' = [drv EXCEPT ![i] = "registering"]
          BY <3>2, <4>1 DEF Register
        <5>2. drv' \in [Drivers -> DriverStates]
          BY <5>1 DEF DriverStates
        <5>3. step' \in [Drivers -> Nat]
          BY <5>1
        <5>4. owner' \in [Devices -> {Owner[j] : j \in Drivers} \cup {NoDriver}]
          BY <5>1
        <5>5. i \in 0..NumDrivers
          BY DEF Drivers
        <5>6. chan' \in [Devices -> 0..NumDrivers]
          BY <5>1, <5>5
        <5> QED BY <5>2, <5>3, <5>4, <5>6
      <4>2. CASE owner[d] \notin {NoDriver, Owner[i]}
        <5>1. drv' = [drv EXCEPT ![i] = "refused"] /\ UNCHANGED <<step, owner, chan>>
          BY <3>2, <4>2 DEF Register
        <5> QED BY <5>1 DEF DriverStates
      <4> QED BY <4>1, <4>2
    <3>3. Register(drvReq, Wants[drvReq][step[drvReq] + 1])
      BY <2>3 DEF HandleDriverRequest
    <3>4. drvReq' \in 0..NumDrivers
      BY <2>3 DEF HandleDriverRequest
    <3>5. UNCHANGED <<started, clients>>
      BY <2>3 DEF HandleDriverRequest
    <3>6. /\ drv' \in [Drivers -> DriverStates]
          /\ step' \in [Drivers -> Nat]
          /\ owner' \in [Devices -> {Owner[j] : j \in Drivers} \cup {NoDriver}]
          /\ chan' \in [Devices -> 0..NumDrivers]
      BY <3>1, <3>2, <3>3
    <3> QED BY <3>4, <3>5, <3>6
  <2>4. CASE PassBarrier
    <3>1. started \in Drivers /\ started' = started + 1 /\ started' \in 1..(NumDrivers + 1)
      BY <2>4 DEF PassBarrier, Drivers
    <3>2. drv' \in [Drivers -> DriverStates]
      BY <2>4 DEF PassBarrier, DriverStates
    <3> QED BY <2>4, <3>1, <3>2 DEF PassBarrier
  <2>5. ASSUME NEW c \in Requesters, NEW k \in {"info", "chan", "set"}, NEW d \in Devices,
               AskCore(c, k, d)
        PROVE  CoreTypeOK'
    BY <2>5 DEF AskCore, Kinds
  <2>6. ASSUME NEW c \in Requesters, SendDirect(c)
        PROVE  CoreTypeOK'
    BY <2>6 DEF SendDirect, Kinds, NoChan
  <2>7. CASE HandleClientRequest
    <3>1. Head(clntReq) \in Requesters /\ clntReq' \in Seq(Requesters)
      BY <2>7 DEF HandleClientRequest
    <3>2. ASSUME NEW c \in Requesters, AnswerAtOnce(c)
          PROVE  /\ want' \in [Requesters -> [kind : Kinds, dev : Devices] \cup {Nothing}]
                 /\ held' \in [Requesters -> [dev : Devices, task : Drivers] \cup {NoChan}]
                 /\ core' = core /\ settings' = settings
      <4>1. want' \in [Requesters -> [kind : Kinds, dev : Devices] \cup {Nothing}]
        BY <3>2 DEF AnswerAtOnce
      <4>2. ASSUME want[c].kind = "chan", chan[want[c].dev] # 0
            PROVE  want[c].dev \in Devices /\ chan[want[c].dev] \in Drivers
        BY <4>2 DEF Drivers, Nothing
      <4>3. ASSUME UNCHANGED held
            PROVE  held' \in [Requesters -> [dev : Devices, task : Drivers] \cup {NoChan}]
        BY <4>3
      <4>4. ASSUME ~UNCHANGED held
            PROVE  held' \in [Requesters -> [dev : Devices, task : Drivers] \cup {NoChan}]
        <5>1. /\ want[c].kind = "chan" /\ chan[want[c].dev] # 0
              /\ held' = [held EXCEPT ![c] = [dev |-> want[c].dev, task |-> chan[want[c].dev]]]
          BY <3>2, <4>4 DEF AnswerAtOnce
        <5> QED BY <4>2, <5>1
      <4> QED BY <3>2, <4>1, <4>3, <4>4 DEF AnswerAtOnce
    <3>3. ASSUME NEW c \in Requesters, Forward(c)
          PROVE  /\ settings' \in [Devices -> Seq(Requesters)]
                 /\ core' \in Requesters /\ want' = want /\ held' = held
      <4>1. settings' = [settings EXCEPT ![want[c].dev] = Append(settings[want[c].dev], c)]
        BY <3>3 DEF Forward
      <4>2. want[c].dev \in Devices
        BY <3>3 DEF Forward, Nothing
      <4>3. Append(settings[want[c].dev], c) \in Seq(Requesters)
        <5>1. settings[want[c].dev] \in Seq(Requesters)
          BY <4>2
        <5> HIDE DEF CoreTypeOK
        <5> QED BY <5>1
      <4>4. settings' \in [Devices -> Seq(Requesters)]
        BY <4>1, <4>3
      <4> QED BY <3>3, <4>4 DEF Forward
    <3> DEFINE c == Head(clntReq)
    <3>4. /\ UNCHANGED <<started, drv, step, owner, chan, drvReq>>
          /\ AnswerAtOnce(c) \/ Forward(c)
      BY <2>7 DEF HandleClientRequest
    <3>5. c \in Requesters
      BY <3>1
    <3> HIDE DEF c
    <3>6. /\ want' \in [Requesters -> [kind : Kinds, dev : Devices] \cup {Nothing}]
          /\ held' \in [Requesters -> [dev : Devices, task : Drivers] \cup {NoChan}]
          /\ core' \in Requesters \cup {NoRequester}
          /\ settings' \in [Devices -> Seq(Requesters)]
      <4>1. CASE AnswerAtOnce(c)
        BY <3>2, <3>5, <4>1
      <4>2. CASE Forward(c)
        BY <3>3, <3>5, <4>2
      <4> QED BY <3>4, <4>1, <4>2
    <3> QED BY <3>1, <3>4, <3>6
  <2>8. ASSUME NEW d \in Devices, Answer(d)
        PROVE  /\ settings' \in [Devices -> Seq(Requesters)]
               /\ want' \in [Requesters -> [kind : Kinds, dev : Devices] \cup {Nothing}]
               /\ core' \in Requesters \cup {NoRequester}
               /\ clntReq' = clntReq /\ held' = held
    BY <2>8 DEF Answer, Nothing, Kinds
  <2>9. ASSUME NEW d \in Devices, Serve(d)
        PROVE  CoreTypeOK'
    BY <2>8, <2>9 DEF Serve
  <2>10. ASSUME NEW i \in Drivers, Crash(i)
         PROVE  CoreTypeOK'
    <3>1. drv' \in [Drivers -> DriverStates]
      BY <2>10 DEF Crash, DriverStates
    <3> QED BY <2>8, <2>10, <3>1 DEF Crash
  <2>11. ASSUME NEW i \in Drivers, Restart(i)
         PROVE  CoreTypeOK'
    BY <2>11 DEF Restart, DriverStates
  <2>12. CASE UNCHANGED coreVars
    BY <2>12 DEF coreVars
  <2> HIDE DEF CoreTypeOK
  <2> QED BY <2>1, <2>2, <2>3, <2>4, <2>5, <2>6, <2>7, <2>9, <2>10, <2>11, <2>12 DEF CoreNext
<1> QED BY <1>1, <1>2, PTL DEF CoreSpec
-----------------------------------------------------------------------------
\* A task that has not passed its barrier is the one being started.
OneAtATime ==
  /\ \A i \in Drivers : drv[i] \in {"registering", "asking", "refused"} => i = started
  /\ drvReq # 0 => drv[drvReq] = "asking"

\* Nothing of a client's exists until the clients run.
ClientsLast ==
  clntReq # <<>> \/ core # NoRequester \/ (\E c \in Requesters : held[c] # NoChan)
    => ClientsMayRun

\* The task that receives a device's settings runs the device's owner.
ChanOfOwner == \A d \in Devices : chan[d] # 0 => owner[d] = Owner[chan[d]]

StartInv == OneAtATime /\ ClientsLast /\ ChanOfOwner /\ HeldChannelIsCurrent

\* After the start no task registers, so nothing it relies on changes.
LEMMA StartedForGood ==
  ASSUME CoreTypeOK, OneAtATime, ClientsMayRun
  PROVE  /\ drvReq = 0
         /\ \A i \in Drivers : drv[i] \notin {"registering", "asking", "refused"}
<1> USE DEF CoreTypeOK, OneAtATime, ClientsMayRun, Drivers
<1>1. \A i \in Drivers : drv[i] \notin {"registering", "asking", "refused"}
  OBVIOUS
<1>2. drvReq = 0
  BY <1>1
<1> QED BY <1>1, <1>2

\* Registering a device leaves its channel with a driver of its owner's name.
LEMMA RegisterKeepsOwner ==
  ASSUME CoreTypeOK, ChanOfOwner, NEW i \in Drivers, NEW e, Register(i, e)
  PROVE  /\ ChanOfOwner'
         /\ \A d \in Devices :
              chan[d] # 0 /\ chan'[d] # chan[d] => Owner[chan'[d]] = Owner[chan[d]]
<1>1. CASE owner[e] \in {NoDriver, Owner[i]}
  <2>1. owner' = [owner EXCEPT ![e] = Owner[i]] /\ chan' \in {chan, [chan EXCEPT ![e] = i]}
    BY <1>1 DEF Register
  <2>2. ASSUME NEW d \in Devices
        PROVE  /\ chan'[d] # 0 => owner'[d] = Owner[chan'[d]]
               /\ chan[d] # 0 /\ chan'[d] # chan[d] => Owner[chan'[d]] = Owner[chan[d]]
    <3>1. CASE d = e
      <4>1. owner'[d] = Owner[i] /\ chan'[d] \in {chan[d], i}
        BY <2>1, <3>1 DEF CoreTypeOK
      <4>2. chan[d] # 0 => chan[d] \in Drivers /\ owner[d] = Owner[chan[d]]
        BY DEF CoreTypeOK, ChanOfOwner, Drivers
      <4> QED BY <1>1, <3>1, <4>1, <4>2
    <3>2. CASE d # e
      BY <2>1, <3>2 DEF CoreTypeOK, ChanOfOwner
    <3> QED BY <3>1, <3>2
  <2> QED BY <2>2 DEF ChanOfOwner
<1>2. CASE owner[e] \notin {NoDriver, Owner[i]}
  BY <1>2 DEF Register, ChanOfOwner
<1> QED BY <1>1, <1>2

\* Start-up in order is kept by every step.
LEMMA StartInvInductive == CoreTypeOK /\ StartInv /\ [CoreNext]_coreVars => StartInv'
<1> SUFFICES ASSUME CoreTypeOK, StartInv, [CoreNext]_coreVars
             PROVE  StartInv'
  OBVIOUS
<1> USE DEF StartInv, drivers, clients
<1>1. ASSUME NEW i \in Drivers, ConfigError(i)
      PROVE  StartInv'
  BY <1>1 DEF ConfigError, CoreTypeOK, OneAtATime, ClientsLast, ClientsMayRun, ChanOfOwner,
       HeldChannelIsCurrent
<1>2. ASSUME NEW i \in Drivers, AskToRegister(i)
      PROVE  StartInv'
  BY <1>2 DEF AskToRegister, CoreTypeOK, OneAtATime, ClientsLast, ClientsMayRun, ChanOfOwner,
       HeldChannelIsCurrent
<1>3. CASE HandleDriverRequest
  <2>1. drvReq \in Drivers /\ drv[drvReq] = "asking" /\ drvReq = started
    BY <1>3 DEF HandleDriverRequest, CoreTypeOK, OneAtATime, Drivers
  <2>2. ~ClientsMayRun
    BY <2>1 DEF ClientsMayRun, Drivers, CoreTypeOK
  <2>3. Register(drvReq, Wants[drvReq][step[drvReq] + 1]) /\ drvReq' = 0
    BY <1>3 DEF HandleDriverRequest
  <2>4. ChanOfOwner'
    BY <2>1, <2>3, RegisterKeepsOwner
  <2>5. \A i \in Drivers : i # drvReq => drv'[i] = drv[i]
    BY <2>3 DEF Register, CoreTypeOK
  <2>6. UNCHANGED <<started, clients>>
    BY <1>3 DEF HandleDriverRequest
  <2>7. OneAtATime'
    BY <2>1, <2>3, <2>5, <2>6 DEF OneAtATime
  <2>8. ClientsLast' /\ HeldChannelIsCurrent'
    BY <2>2, <2>6 DEF ClientsLast, HeldChannelIsCurrent, ClientsMayRun
  <2> QED BY <2>4, <2>7, <2>8
<1>4. CASE PassBarrier
  <2>1. drvReq = 0 /\ drvReq' = 0
    BY <1>4 DEF PassBarrier, AtBarrier, CoreTypeOK, OneAtATime, Drivers
  <2>2. ~ClientsMayRun
    BY <1>4 DEF PassBarrier, ClientsMayRun, Drivers
  <2>3. \A i \in Drivers : drv'[i] \in {"registering", "asking", "refused"} => i = started'
    BY <1>4 DEF PassBarrier, OneAtATime, CoreTypeOK
  <2> QED
    BY <1>4, <2>1, <2>2, <2>3 DEF PassBarrier, OneAtATime, ClientsLast, ChanOfOwner,
         HeldChannelIsCurrent
<1>5. ASSUME NEW c \in Requesters, NEW k \in {"info", "chan", "set"}, NEW d \in Devices,
             AskCore(c, k, d)
      PROVE  StartInv'
  BY <1>5 DEF AskCore, OneAtATime, ClientsLast, ClientsMayRun, ChanOfOwner,
       HeldChannelIsCurrent
<1>6. ASSUME NEW c \in Requesters, SendDirect(c)
      PROVE  StartInv'
  BY <1>6 DEF SendDirect, OneAtATime, ClientsLast, ClientsMayRun, ChanOfOwner,
       HeldChannelIsCurrent
<1>7. CASE HandleClientRequest
  <2>1. ClientsMayRun /\ ClientsMayRun' /\ Head(clntReq) \in Requesters
    BY <1>7 DEF HandleClientRequest, ClientsLast, ClientsMayRun, CoreTypeOK
  <2>2. OneAtATime' /\ ClientsLast' /\ ChanOfOwner'
    BY <1>7, <2>1 DEF HandleClientRequest, OneAtATime, ClientsLast, ChanOfOwner
  <2>3. ASSUME NEW c \in Requesters, AnswerAtOnce(c), UNCHANGED chan
        PROVE  HeldChannelIsCurrent'
    BY <2>3 DEF AnswerAtOnce, HeldChannelIsCurrent, CoreTypeOK
  <2>4. ASSUME NEW c \in Requesters, Forward(c), UNCHANGED chan
        PROVE  HeldChannelIsCurrent'
    BY <2>4 DEF Forward, HeldChannelIsCurrent
  <2>5. UNCHANGED chan /\ (AnswerAtOnce(Head(clntReq)) \/ Forward(Head(clntReq)))
    BY <1>7 DEF HandleClientRequest
  <2> QED BY <2>1, <2>2, <2>3, <2>4, <2>5
<1>8. ASSUME NEW d \in Devices, Answer(d), UNCHANGED <<started, drvReq, owner, chan>>,
             OneAtATime'
      PROVE  StartInv'
  BY <1>8 DEF Answer, ClientsLast, ClientsMayRun, ChanOfOwner, HeldChannelIsCurrent
<1>9. ASSUME NEW d \in Devices, Serve(d)
      PROVE  StartInv'
  <2>1. OneAtATime'
    BY <1>9 DEF Serve, OneAtATime
  <2> QED BY <1>8, <1>9, <2>1 DEF Serve
<1>10. ASSUME NEW i \in Drivers, Crash(i)
       PROVE  StartInv'
  <2>1. OneAtATime'
    BY <1>10 DEF Crash, OneAtATime, CoreTypeOK
  <2>2. CASE UNCHANGED clients
    BY <1>10, <2>1, <2>2 DEF Crash, ClientsLast, ClientsMayRun, ChanOfOwner,
         HeldChannelIsCurrent
  <2> QED BY <1>8, <1>10, <2>1, <2>2 DEF Crash
<1>11. ASSUME NEW i \in Drivers, Restart(i)
       PROVE  StartInv'
  BY <1>11 DEF Restart, CoreTypeOK, OneAtATime, ClientsLast, ClientsMayRun, ChanOfOwner,
       HeldChannelIsCurrent
<1>12. CASE UNCHANGED coreVars
  BY <1>12 DEF coreVars, OneAtATime, ClientsLast, ClientsMayRun, ChanOfOwner,
       HeldChannelIsCurrent
<1> HIDE DEF StartInv
<1> QED BY <1>1, <1>2, <1>3, <1>4, <1>5, <1>6, <1>7, <1>9, <1>10, <1>11, <1>12 DEF CoreNext

\* Start-up in order is an invariant of the whole program.
LEMMA StartInvariant == CoreSpec => []StartInv
<1>1. CoreInit => StartInv
  BY DEF CoreInit, StartInv, OneAtATime, ClientsLast, ClientsMayRun, ChanOfOwner,
         HeldChannelIsCurrent
<1> QED BY <1>1, StartInvInductive, TypeCorrect, PTL DEF CoreSpec

\* The core never waits for a driver while a driver waits for the core.
THEOREM NoDeadlyEmbrace == CoreSpec => []NoWaitCycle
<1>1. CoreTypeOK /\ StartInv => NoWaitCycle
  BY StartedForGood DEF StartInv, ClientsLast, NoWaitCycle
<1> QED BY <1>1, TypeCorrect, StartInvariant, PTL

\* The setting channel a logic node holds stays the device's.
THEOREM HeldChannelStays == CoreSpec => []HeldChannelIsCurrent
<1>1. StartInv => HeldChannelIsCurrent
  BY DEF StartInv
<1> QED BY <1>1, StartInvariant, PTL

\* No step gives a registered device to a driver of another name.
THEOREM DevicesStayWithOwner == CoreSpec => OwnerKeepsDevice
<1> DEFINE Kept == \A d \in Devices :
       chan[d] # 0 /\ chan'[d] # chan[d] => Owner[chan'[d]] = Owner[chan[d]]
<1>1. CoreTypeOK /\ StartInv /\ [CoreNext]_coreVars => [Kept]_coreVars
  <2> SUFFICES ASSUME CoreTypeOK, StartInv, CoreNext
               PROVE  Kept
    OBVIOUS
  <2>1. CASE HandleDriverRequest
    <3>1. drvReq \in Drivers /\ Register(drvReq, Wants[drvReq][step[drvReq] + 1])
      BY <2>1 DEF HandleDriverRequest, CoreTypeOK, Drivers
    <3> QED BY <3>1, RegisterKeepsOwner DEF StartInv
  <2>2. CASE UNCHANGED chan
    BY <2>2
  <2>3. HandleDriverRequest \/ UNCHANGED chan
    BY DEF CoreNext, ConfigError, AskToRegister, PassBarrier, AskCore, SendDirect,
           HandleClientRequest, Serve, Crash, Restart, drivers
  <2> QED BY <2>1, <2>2, <2>3
<1> QED BY <1>1, TypeCorrect, StartInvariant, PTL DEF CoreSpec, OwnerKeepsDevice
-----------------------------------------------------------------------------
(* A client is in at most one queue, at most once.  A client that is nowhere *)
(* must have nothing to wait for, or it would wait for ever; a client in two *)
(* places, or twice in one, would be answered twice, and the second answer   *)
(* could be one that the core is not waiting for.                            *)

NoRepeat(q) == \A m, n \in 1..Len(q) : q[m] = q[n] => m = n

\* A request in the core's channel is not with a driver or with the core.
InChannel ==
  \A c \in Requesters :
    In(c, clntReq) =>
      /\ want[c].kind \in {"info", "chan", "set"}
      /\ core # c
      /\ \A d \in Devices : ~In(c, settings[d])

\* A setting is in the channel of the device it is for, and the core waits
\* for its reply when, and only when, the core has forwarded it.
AtDriver ==
  \A c \in Requesters, d \in Devices :
    In(c, settings[d]) =>
      /\ want[c].kind # "nothing"
      /\ want[c].dev = d
      /\ core = c <=> want[c].kind = "set"

\* Whoever waits is in a queue, and so is the client the core waits for.
Somewhere ==
  \A c \in Requesters :
    /\ want[c] # Nothing => In(c, clntReq) \/ \E d \in Devices : In(c, settings[d])
    /\ core = c => \E d \in Devices : In(c, settings[d])

PlaceInv ==
  /\ NoRepeat(clntReq) /\ \A d \in Devices : NoRepeat(settings[d])
  /\ InChannel
  /\ AtDriver
  /\ Somewhere

\* Joining a queue at its end.
LEMMA Joined ==
  ASSUME NEW q \in Seq(Requesters), NEW c \in Requesters
  PROVE  /\ \A x : In(x, Append(q, c)) <=> In(x, q) \/ x = c
         /\ NoRepeat(q) /\ ~In(c, q) => NoRepeat(Append(q, c))
<1> DEFINE p == Append(q, c)
<1>1. /\ Len(p) = Len(q) + 1 /\ Len(q) \in Nat
      /\ \A n \in 1..Len(q) : p[n] = q[n]
      /\ p[Len(q) + 1] = c
  OBVIOUS
<1> HIDE DEF p
<1>2. ASSUME NEW x
      PROVE  In(x, p) <=> In(x, q) \/ x = c
  <2>1. ASSUME In(x, p) PROVE In(x, q) \/ x = c
    <3>1. PICK n \in 1..Len(p) : p[n] = x
      BY <2>1 DEF In
    <3>2. n \in 1..Len(q) \/ n = Len(q) + 1
      BY <1>1
    <3> QED BY <1>1, <3>1, <3>2 DEF In
  <2>2. ASSUME In(x, q) PROVE In(x, p)
    BY <1>1, <2>2 DEF In
  <2>3. ASSUME x = c PROVE In(x, p)
    BY <1>1, <2>3 DEF In
  <2> QED BY <2>1, <2>2, <2>3
<1>3. ASSUME NoRepeat(q), ~In(c, q)
      PROVE  NoRepeat(p)
  BY <1>1, <1>3 DEF In, NoRepeat
<1> QED BY <1>2, <1>3 DEF p

\* Leaving a queue at its head.
LEMMA Left ==
  ASSUME NEW q \in Seq(Requesters), q # <<>>
  PROVE  /\ Head(q) \in Requesters /\ In(Head(q), q)
         /\ \A x : In(x, Tail(q)) => In(x, q)
         /\ \A x : In(x, q) => In(x, Tail(q)) \/ x = Head(q)
         /\ NoRepeat(q) => NoRepeat(Tail(q)) /\ ~In(Head(q), Tail(q))
<1> DEFINE p == Tail(q)
<1>1. /\ Len(q) \in Nat \ {0} /\ Len(p) = Len(q) - 1
      /\ \A n \in 1..Len(p) : p[n] = q[n + 1]
      /\ q[1] = Head(q) /\ Head(q) \in Requesters
  OBVIOUS
<1> HIDE DEF p
<1>2. In(Head(q), q)
  BY <1>1 DEF In
<1>3. ASSUME NEW x, In(x, p)
      PROVE  In(x, q)
  BY <1>1, <1>3 DEF In
<1>4. ASSUME NEW x, In(x, q)
      PROVE  In(x, p) \/ x = Head(q)
  <2>1. PICK n \in 1..Len(q) : q[n] = x
    BY <1>4 DEF In
  <2>2. ASSUME n # 1
        PROVE  n - 1 \in 1..Len(p) /\ p[n - 1] = x
    BY <1>1, <2>1, <2>2
  <2> QED BY <1>1, <2>1, <2>2 DEF In
<1>5. ASSUME NoRepeat(q)
      PROVE  NoRepeat(p) /\ ~In(Head(q), p)
  BY <1>1, <1>5 DEF In, NoRepeat
<1> QED BY <1>1, <1>2, <1>3, <1>4, <1>5 DEF p

\* A client that waits for nothing is nowhere.
LEMMA Nowhere ==
  ASSUME CoreTypeOK, PlaceInv, NEW c \in Requesters, want[c] = Nothing
  PROVE  ~In(c, clntReq) /\ core # c /\ \A d \in Devices : ~In(c, settings[d])
<1>1. want[c].kind = "nothing"
  BY DEF Nothing
<1> QED BY <1>1 DEF PlaceInv, InChannel, AtDriver, Somewhere

\* The answer to a setting takes its client out of the one queue it is in.
LEMMA AnswerKeepsPlaces ==
  ASSUME CoreTypeOK, PlaceInv, NEW d \in Devices, Answer(d)
  PROVE  PlaceInv'
<1> DEFINE c == Head(settings[d])
           q == settings[d]
<1>1. /\ q \in Seq(Requesters) /\ q # <<>> /\ settings \in [Devices -> Seq(Requesters)]
      /\ settings' = [settings EXCEPT ![d] = Tail(q)]
      /\ want' = [want EXCEPT ![c] = Nothing] /\ DOMAIN want = Requesters
      /\ core' = (IF core = c THEN NoRequester ELSE core)
      /\ clntReq' = clntReq
  BY DEF Answer, CoreTypeOK
<1>2. /\ c \in Requesters /\ In(c, q) /\ NoRepeat(q)
      /\ \A x : In(x, Tail(q)) => In(x, q)
      /\ \A x : In(x, q) => In(x, Tail(q)) \/ x = c
      /\ NoRepeat(Tail(q)) /\ ~In(c, Tail(q))
  BY <1>1, Left DEF PlaceInv
<1>3. want[c].dev = d /\ ~In(c, clntReq) /\ \A e \in Devices : e # d => ~In(c, settings[e])
  BY <1>2 DEF PlaceInv, InChannel, AtDriver
<1>4. /\ settings'[d] = Tail(q) /\ \A e \in Devices : e # d => settings'[e] = settings[e]
      /\ want'[c] = Nothing /\ \A x \in Requesters : x # c => want'[x] = want[x]
      /\ \A x \in Requesters : x # c => (core' = x <=> core = x)
      /\ core' # c
  BY <1>1, <1>2
<1> HIDE DEF c, q
<1>5. \A e \in Devices : ~In(c, settings'[e])
  BY <1>2, <1>3, <1>4
<1>6. \A x \in Requesters, e \in Devices : x # c => (In(x, settings'[e]) <=> In(x, settings[e]))
  BY <1>2, <1>4 DEF q
<1>7. NoRepeat(clntReq') /\ \A e \in Devices : NoRepeat(settings'[e])
  BY <1>1, <1>2, <1>4 DEF PlaceInv
<1>8. InChannel'
  BY <1>1, <1>3, <1>4, <1>5, <1>6 DEF PlaceInv, InChannel
<1>9. AtDriver'
  BY <1>4, <1>5, <1>6 DEF PlaceInv, AtDriver
<1>10. Somewhere'
  BY <1>1, <1>4, <1>6 DEF PlaceInv, Somewhere
<1> QED BY <1>7, <1>8, <1>9, <1>10 DEF PlaceInv

\* A setting joins the queue of its device: its client was in no other one.
LEMMA SettingKeepsPlaces ==
  ASSUME CoreTypeOK, PlaceInv, NEW c \in Requesters, NEW d \in Devices,
         settings' = [settings EXCEPT ![d] = Append(@, c)],
         \A e \in Devices : ~In(c, settings[e]),
         NoRepeat(clntReq'), ~In(c, clntReq'),
         \A x \in Requesters : x # c => (In(x, clntReq') <=> In(x, clntReq)),
         \A x \in Requesters : x # c => want'[x] = want[x],
         want'[c].kind # "nothing", want'[c].dev = d,
         core' = c <=> want'[c].kind = "set",
         \A x \in Requesters : x # c => (core' = x <=> core = x)
  PROVE  PlaceInv'
<1>1. /\ settings[d] \in Seq(Requesters) /\ settings'[d] = Append(settings[d], c)
      /\ \A e \in Devices : e # d => settings'[e] = settings[e]
  BY DEF CoreTypeOK
<1>2. /\ \A x : In(x, Append(settings[d], c)) <=> In(x, settings[d]) \/ x = c
      /\ NoRepeat(Append(settings[d], c))
  BY <1>1, Joined DEF PlaceInv
<1>3. \A x \in Requesters, e \in Devices : x # c => (In(x, settings'[e]) <=> In(x, settings[e]))
  BY <1>1, <1>2
<1>4. In(c, settings'[d]) /\ \A e \in Devices : e # d => ~In(c, settings'[e])
  BY <1>1, <1>2
<1>5. \A e \in Devices : NoRepeat(settings'[e])
  BY <1>1, <1>2 DEF PlaceInv
<1>6. InChannel'
  BY <1>3 DEF PlaceInv, InChannel
<1>7. AtDriver'
  BY <1>3, <1>4 DEF PlaceInv, AtDriver
<1>8. Somewhere'
  BY <1>3, <1>4 DEF PlaceInv, Somewhere
<1> QED BY <1>5, <1>6, <1>7, <1>8 DEF PlaceInv

\* Every step leaves every client in at most one place.
LEMMA PlaceInvInductive == CoreTypeOK /\ PlaceInv /\ [CoreNext]_coreVars => PlaceInv'
<1> SUFFICES ASSUME CoreTypeOK, PlaceInv, [CoreNext]_coreVars
             PROVE  PlaceInv'
  OBVIOUS
<1>1. CASE UNCHANGED clients
  BY <1>1 DEF clients, PlaceInv, InChannel, AtDriver, Somewhere
<1>2. ASSUME NEW c \in Requesters, NEW k \in {"info", "chan", "set"}, NEW d \in Devices,
             AskCore(c, k, d)
      PROVE  PlaceInv'
  <2>1. ~In(c, clntReq) /\ core # c /\ \A e \in Devices : ~In(c, settings[e])
    BY <1>2, Nowhere DEF AskCore
  <2>2. /\ clntReq' = Append(clntReq, c) /\ core' = core /\ settings' = settings
        /\ want'[c].kind = k /\ \A x \in Requesters : x # c => want'[x] = want[x]
    BY <1>2 DEF AskCore, CoreTypeOK
  <2>3. /\ \A x : In(x, clntReq') <=> In(x, clntReq) \/ x = c
        /\ NoRepeat(clntReq')
    BY <2>1, <2>2, Joined DEF PlaceInv, CoreTypeOK
  <2>4. InChannel'
    BY <2>1, <2>2, <2>3 DEF PlaceInv, InChannel
  <2>5. AtDriver'
    BY <2>1, <2>2 DEF PlaceInv, AtDriver
  <2>6. Somewhere'
    BY <2>1, <2>2, <2>3 DEF PlaceInv, Somewhere
  <2> QED BY <2>2, <2>3, <2>4, <2>5, <2>6 DEF PlaceInv
<1>3. ASSUME NEW c \in Requesters, SendDirect(c)
      PROVE  PlaceInv'
  <2> DEFINE d == held[c].dev
  <2>1. d \in Devices
    BY <1>3 DEF SendDirect, CoreTypeOK
  <2>2. ~In(c, clntReq) /\ core # c /\ \A e \in Devices : ~In(c, settings[e])
    BY <1>3, Nowhere DEF SendDirect
  <2>3. /\ settings' = [settings EXCEPT ![d] = Append(@, c)]
        /\ clntReq' = clntReq /\ core' = core
        /\ want'[c] = [kind |-> "send", dev |-> d]
        /\ \A x \in Requesters : x # c => want'[x] = want[x]
    BY <1>3 DEF SendDirect, CoreTypeOK
  <2>4. want'[c].kind = "send" /\ want'[c].dev = d
    BY <2>3
  <2>5. NoRepeat(clntReq')
    BY <2>3 DEF PlaceInv
  <2> HIDE DEF d
  <2> QED BY <2>1, <2>2, <2>3, <2>4, <2>5, SettingKeepsPlaces
<1>4. CASE HandleClientRequest
  <2> DEFINE c == Head(clntReq)
  <2>1. clntReq \in Seq(Requesters) /\ clntReq # <<>> /\ clntReq' = Tail(clntReq)
    BY <1>4 DEF HandleClientRequest, CoreTypeOK
  <2>2. /\ c \in Requesters /\ In(c, clntReq)
        /\ \A x \in Requesters : x # c => (In(x, clntReq') <=> In(x, clntReq))
        /\ NoRepeat(clntReq') /\ ~In(c, clntReq')
    BY <2>1, Left DEF PlaceInv
  <2>3. core = NoRequester /\ (AnswerAtOnce(c) \/ Forward(c))
    BY <1>4 DEF HandleClientRequest
  <2> HIDE DEF c
  <2>4. \A e \in Devices : ~In(c, settings[e])
    BY <2>2 DEF PlaceInv, InChannel
  <2>5. CASE AnswerAtOnce(c)
    <3>1. /\ want'[c] = Nothing /\ \A x \in Requesters : x # c => want'[x] = want[x]
          /\ core' = core /\ settings' = settings
      BY <2>2, <2>5 DEF AnswerAtOnce, CoreTypeOK
    <3>2. InChannel'
      BY <2>2, <3>1 DEF PlaceInv, InChannel
    <3>3. AtDriver'
      BY <2>4, <3>1 DEF PlaceInv, AtDriver
    <3>4. Somewhere'
      BY <2>2, <3>1 DEF PlaceInv, Somewhere
    <3> QED BY <2>2, <3>1, <3>2, <3>3, <3>4 DEF PlaceInv
  <2>6. CASE Forward(c)
    <3> DEFINE d == want[c].dev
    <3>1. d \in Devices
      BY <2>2, <2>6 DEF Forward, Nothing, CoreTypeOK
    <3>2. /\ settings' = [settings EXCEPT ![d] = Append(@, c)]
          /\ want' = want /\ core' = c /\ want'[c].kind = "set" /\ want'[c].dev = d
      BY <2>6 DEF Forward
    <3> HIDE DEF d
    <3>3. \A x \in Requesters : x # c => (core' = x <=> core = x)
      BY <2>3, <3>2
    <3> QED BY <2>2, <2>4, <3>1, <3>2, <3>3, SettingKeepsPlaces
  <2> QED BY <2>3, <2>5, <2>6
<1>5. ASSUME NEW d \in Devices, Serve(d)
      PROVE  PlaceInv'
  BY <1>5, AnswerKeepsPlaces DEF Serve
<1>6. ASSUME NEW i \in Drivers, Crash(i)
      PROVE  PlaceInv'
  BY <1>1, <1>6, AnswerKeepsPlaces DEF Crash
<1> QED
  BY <1>1, <1>2, <1>3, <1>4, <1>5, <1>6
     DEF CoreNext, coreVars, clients, ConfigError, AskToRegister, HandleDriverRequest, PassBarrier,
         Restart

\* No request is lost and none is answered twice, whoever crashes: a client
\* that waits is in one queue, where the reply it waits for will come from.
THEOREM WaitingClientsAreSomewhere == CoreSpec => []WaitsSomewhere
<1>1. CoreInit => PlaceInv
  BY DEF CoreInit, PlaceInv, NoRepeat, InChannel, AtDriver, Somewhere, In, NoRequesterAssumption
<1>2. CoreTypeOK /\ PlaceInv => WaitsSomewhere
  <2> SUFFICES ASSUME CoreTypeOK, PlaceInv, NEW c \in Requesters
               PROVE  /\ In(c, clntReq) => want[c].kind \in {"info", "chan", "set"} /\ core # c
                      /\ core = c => want[c].kind = "set"
                      /\ want[c] # Nothing =>
                           \/ In(c, clntReq) /\ \A d \in Devices : ~In(c, settings[d])
                           \/ /\ In(c, settings[want[c].dev])
                              /\ ~In(c, clntReq)
                              /\ core = c <=> want[c].kind = "set"
    BY DEF WaitsSomewhere
  <2>1. In(c, clntReq) => /\ want[c].kind \in {"info", "chan", "set"} /\ core # c
                          /\ \A d \in Devices : ~In(c, settings[d])
    BY DEF PlaceInv, InChannel
  <2>2. \A d \in Devices : In(c, settings[d]) =>
          want[c].dev = d /\ (core = c <=> want[c].kind = "set")
    BY DEF PlaceInv, AtDriver
  <2>3. /\ want[c] # Nothing => In(c, clntReq) \/ \E d \in Devices : In(c, settings[d])
        /\ core = c => \E d \in Devices : In(c, settings[d])
    BY DEF PlaceInv, Somewhere
  <2> QED BY <2>1, <2>2, <2>3
<1> QED BY <1>1, <1>2, PlaceInvInductive, TypeCorrect, PTL DEF CoreSpec

=============================================================================
