----------------------- MODULE OverridableDevice_proofs -----------------------
(***************************************************************************)
(* Proofs about OverridableDevice for every set of values and clients,     *)
(* every channel capacity and every override duration.                     *)
(***************************************************************************)
EXTENDS OverridableDevice, TLAPS

USE ValuesAssumption, ClientsAssumption, ChanAssumption, DurationAssumption

-----------------------------------------------------------------------------
\* Every variable keeps its type, and the variants of State<T> keep their shape.
THEOREM TypeCorrect == Spec => []TypeOK
<1>1. Init => TypeOK
  BY DEF Init, TypeOK, States, Idle
<1>2. TypeOK /\ [Next]_vars => TypeOK'
  <2> SUFFICES ASSUME TypeOK, [Next]_vars
               PROVE  TypeOK'
    OBVIOUS
  <2> USE DEF TypeOK, States, Idle, Become, BecomeOverridden, Reply, dev
  <2>1. ASSUME NEW new \in Values, ReportUpdate(new)
        PROVE  TypeOK'
    <3> USE <2>1 DEF ReportUpdate
    <3>1. CASE PollUnknown(new)      BY <3>1 DEF PollUnknown
    <3>2. CASE PollIgnored(new)      BY <3>2 DEF PollIgnored
    <3>3. CASE PollConfirms(new)     BY <3>3 DEF PollConfirms
    <3>4. CASE PollContradicts(new)  BY <3>4 DEF PollContradicts
    <3>5. CASE PollAnticipates(new)  BY <3>5 DEF PollAnticipates
    <3>6. CASE PollOverrides(new)    BY <3>6 DEF PollOverrides, NextDeadline
    <3>7. CASE PollRestores(new)     BY <3>7 DEF PollRestores
    <3>8. CASE PollOverridesAgain(new) BY <3>8 DEF PollOverridesAgain, NextDeadline
    <3> QED BY <3>1, <3>2, <3>3, <3>4, <3>5, <3>6, <3>7, <3>8
  <2>2. ASSUME NEW c \in Clients, NEW v \in Values, TakeSetting(c, v)
        PROVE  TypeOK'
    BY <2>2 DEF TakeSetting, Yields
  <2>3. ASSUME NEW c \in Clients, NEW v \in Values, TakeSameSetting(c, v)
        PROVE  TypeOK'
    BY <2>3 DEF TakeSameSetting, Yields
  <2>4. ASSUME NEW c \in Clients, NEW v \in Values, StoreSetting(c, v)
        PROVE  TypeOK'
    BY <2>4 DEF StoreSetting, Yields
  <2>5. CASE RejectWrongType
    BY <2>5 DEF RejectWrongType
  <2>6. CASE FinishReport
    BY <2>6 DEF FinishReport
  <2>7. CASE ForwardSetting
    BY <2>7 DEF ForwardSetting
  <2>8. CASE ReassertSetting
    BY <2>8 DEF ReassertSetting
  <2>9. CASE ExpireOverride
    BY <2>9 DEF ExpireOverride
  <2>10. ASSUME NEW c \in Clients, NEW v \in Values \cup {WrongType}, SendSetting(c, v)
         PROVE  TypeOK'
    BY <2>10 DEF SendSetting
  <2>11. CASE DriverReply
    BY <2>11 DEF DriverReply
  <2>12. CASE ResetState
    BY <2>12 DEF ResetState
  <2>13. CASE Tick
    BY <2>13 DEF Tick
  <2>14. CASE UNCHANGED vars
    BY <2>14 DEF vars
  <2> QED
    BY <2>1, <2>2, <2>3, <2>4, <2>5, <2>6, <2>7, <2>8, <2>9, <2>10, <2>11,
       <2>12, <2>13, <2>14 DEF Next, Receive
<1> QED
  BY <1>1, <1>2, PTL DEF Spec

-----------------------------------------------------------------------------
(* What the backend shows.  BackendShowsHardware alone is not inductive: a  *)
(* state that will become Synced (SyncedTrans) must already hold the last   *)
(* reading, and only BackendInStep says that the reading was reported.      *)

\* A value no setting is replacing is the last reading.
HeldIsSeen == state \in {"Synced", "SyncedTrans", "Overridden"} => value = seen

TruthInv ==
  /\ TypeOK
  /\ BackendInStep
  /\ HeldIsSeen
  /\ WriteIsPublished

LEMMA TruthInit == Init => TruthInv
  BY DEF Init, TruthInv, BackendInStep, HeldIsSeen, WriteIsPublished,
     TypeOK, States, Idle

\* No reading given to report_update leaves the backend behind.
LEMMA ReportUpdateTruth ==
  ASSUME TruthInv, NEW new \in Values, ReportUpdate(new)
  PROVE  BackendInStep' /\ HeldIsSeen' /\ WriteIsPublished'
<1> USE DEF TruthInv, TypeOK, States, BackendInStep, HeldIsSeen, WriteIsPublished,
            Become, BecomeOverridden, Reply, dev, ReportUpdate, Idle
<1>1. CASE PollUnknown(new)        BY <1>1 DEF PollUnknown
<1>2. CASE PollIgnored(new)        BY <1>2 DEF PollIgnored
<1>3. CASE PollConfirms(new)       BY <1>3 DEF PollConfirms
<1>4. CASE PollContradicts(new)    BY <1>4 DEF PollContradicts
<1>5. CASE PollAnticipates(new)    BY <1>5 DEF PollAnticipates
<1>6. CASE PollOverrides(new)      BY <1>6 DEF PollOverrides
<1>7. CASE PollRestores(new)       BY <1>7 DEF PollRestores
<1>8. CASE PollOverridesAgain(new) BY <1>8 DEF PollOverridesAgain
<1> QED BY <1>1, <1>2, <1>3, <1>4, <1>5, <1>6, <1>7, <1>8

\* No request taken from the channel does.
LEMMA ReceiveTruth ==
  ASSUME TruthInv, Receive
  PROVE  BackendInStep' /\ HeldIsSeen' /\ WriteIsPublished'
<1> USE DEF TruthInv, TypeOK, States, BackendInStep, HeldIsSeen, WriteIsPublished,
            Become, Yields
<1> PICK c \in Clients, v \in Values :
      TakeSetting(c, v) \/ TakeSameSetting(c, v) \/ StoreSetting(c, v)
  BY DEF Receive
<1>1. CASE TakeSetting(c, v)     BY <1>1 DEF TakeSetting
<1>2. CASE TakeSameSetting(c, v) BY <1>2 DEF TakeSameSetting
<1>3. CASE StoreSetting(c, v)    BY <1>3 DEF StoreSetting
<1> QED BY <1>1, <1>2, <1>3

\* TruthInv is an invariant of the device.
LEMMA TruthAlways == Spec => []TruthInv
<1>1. TruthInv /\ TypeOK' /\ [Next]_vars => TruthInv'
  <2> SUFFICES ASSUME TruthInv, TypeOK', [Next]_vars
               PROVE  BackendInStep' /\ HeldIsSeen' /\ WriteIsPublished'
    BY DEF TruthInv
  <2> USE DEF TruthInv, TypeOK, States, BackendInStep, HeldIsSeen, WriteIsPublished,
              Become, dev
  <2>1. CASE \E new \in Values : ReportUpdate(new)
    BY <2>1, ReportUpdateTruth
  <2>2. CASE Receive
    BY <2>2, ReceiveTruth
  <2>3. CASE RejectWrongType
    BY <2>3 DEF RejectWrongType
  <2>4. CASE FinishReport
    BY <2>4 DEF FinishReport
  <2>5. CASE ForwardSetting
    BY <2>5 DEF ForwardSetting
  <2>6. CASE ReassertSetting
    BY <2>6 DEF ReassertSetting
  <2>7. CASE ExpireOverride
    BY <2>7 DEF ExpireOverride
  <2>8. CASE \E c \in Clients, v \in Values \cup {WrongType} : SendSetting(c, v)
    BY <2>8 DEF SendSetting
  <2>9. CASE DriverReply
    BY <2>9 DEF DriverReply
  <2>10. CASE ResetState
    BY <2>10 DEF ResetState
  <2>11. CASE Tick
    BY <2>11 DEF Tick
  <2>12. CASE UNCHANGED vars
    BY <2>12 DEF vars
  <2> QED
    BY <2>1, <2>2, <2>3, <2>4, <2>5, <2>6, <2>7, <2>8, <2>9, <2>10, <2>11,
       <2>12 DEF Next
<1> QED
  BY TruthInit, <1>1, TypeCorrect, PTL DEF Spec

\* The backend has the device's value in every state without a report under
\* way (report_update and process_update).
THEOREM BackendTruthful == Spec => []BackendInStep
<1>1. TruthInv => BackendInStep
  BY DEF TruthInv
<1> QED
  BY TruthAlways, <1>1, PTL

\* A device at rest, and an overridden one, shows what the hardware was last
\* seen to do (the states Synced and Overridden of the driver).
THEOREM HardwareIsShown == Spec => []BackendShowsHardware
<1>1. TruthInv => BackendShowsHardware
  BY DEF TruthInv, BackendInStep, HeldIsSeen, BackendShowsHardware
<1> QED
  BY TruthAlways, <1>1, PTL

\* The driver writes only what the backend already shows (the arm Setting).
THEOREM WritesArePublished == Spec => []WriteIsPublished
<1>1. TruthInv => WriteIsPublished
  BY DEF TruthInv
<1> QED
  BY TruthAlways, <1>1, PTL

-----------------------------------------------------------------------------
\* Only a setting, a reset, a first reading or a second override replaces the
\* value the hardware is to be brought back to.
THEOREM TargetIsKept == Spec => TargetKept
<1> DEFINE Kept ==
      Target' # Target =>
        \/ Len(queue') < Len(queue)
        \/ "Unknown" \in {state, state'}
        \/ state = "Overridden" /\ state' = "Overridden" /\ value' # value
<1>1. TypeOK /\ [Next]_vars => [Kept]_vars
  <2> SUFFICES ASSUME TypeOK, Next
               PROVE  Kept
    OBVIOUS
  <2> USE DEF TypeOK, States, Become, BecomeOverridden, Target, dev
  <2>1. ASSUME NEW new \in Values, ReportUpdate(new)
        PROVE  Kept
    BY <2>1 DEF ReportUpdate, PollUnknown, PollIgnored, PollConfirms, PollContradicts,
       PollAnticipates, PollOverrides, PollRestores, PollOverridesAgain
  <2>2. CASE Receive
    <3>1. PICK c \in Clients, v \in Values : Yields(c, v)
      BY <2>2 DEF Receive, TakeSetting, TakeSameSetting, StoreSetting
    <3>2. Len(queue') < Len(queue)
      BY <3>1 DEF Yields
    <3> QED BY <3>2
  <2>3. CASE RejectWrongType
    BY <2>3 DEF RejectWrongType
  <2>4. CASE FinishReport
    BY <2>4 DEF FinishReport
  <2>5. CASE ForwardSetting
    BY <2>5 DEF ForwardSetting
  <2>6. CASE ReassertSetting
    BY <2>6 DEF ReassertSetting
  <2>7. CASE ExpireOverride
    BY <2>7 DEF ExpireOverride
  <2>8. CASE \E c \in Clients, v \in Values \cup {WrongType} : SendSetting(c, v)
    BY <2>8 DEF SendSetting
  <2>9. CASE DriverReply
    BY <2>9 DEF DriverReply
  <2>10. CASE ResetState
    BY <2>10 DEF ResetState
  <2>11. CASE Tick
    BY <2>11 DEF Tick
  <2> QED
    BY <2>1, <2>2, <2>3, <2>4, <2>5, <2>6, <2>7, <2>8, <2>9, <2>10, <2>11 DEF Next
<1> QED
  BY <1>1, TypeCorrect, PTL DEF Spec, TargetKept

-----------------------------------------------------------------------------
(* Where requests are. *)

AccountInv == TypeOK /\ RequestsAccounted /\ RightReply

\* The client that sends is added to the channel.
LEMMA SendQueue ==
  ASSUME TypeOK, NEW c \in Clients, queue' = Append(queue, c)
  PROVE  /\ \A d \in Clients : InQueue(d)' <=> (InQueue(d) \/ d = c)
         /\ Len(queue') = Len(queue) + 1
         /\ \A i \in 1..Len(queue) : queue'[i] = queue[i]
         /\ queue'[Len(queue')] = c
  BY DEF TypeOK, InQueue

\* The request that leaves the channel is its first, and no other leaves.
LEMMA YieldQueue ==
  ASSUME TypeOK, queue # <<>>, queue' = Tail(queue),
         \A i, j \in 1..Len(queue) : queue[i] = queue[j] => i = j
  PROVE  /\ Head(queue) \in Clients
         /\ InQueue(Head(queue))
         /\ \A d \in Clients : InQueue(d)' <=> (InQueue(d) /\ d # Head(queue))
         /\ ~InQueue(NoClient)'
         /\ \A i, j \in 1..Len(queue') : queue'[i] = queue'[j] => i = j
<1> USE DEF TypeOK, InQueue
<1>1. /\ Len(queue) \in Nat \ {0}
      /\ Head(queue) = queue[1]
      /\ Len(queue') = Len(queue) - 1
      /\ \A i \in 1..Len(queue') : queue'[i] = queue[i + 1]
  OBVIOUS
<1>2. ASSUME NEW d \in Clients
      PROVE  InQueue(d)' <=> (InQueue(d) /\ d # Head(queue))
  <2>1. ASSUME NEW i \in 1..Len(queue'), queue'[i] = d
        PROVE  InQueue(d) /\ d # Head(queue)
    BY <1>1, <2>1
  <2>2. ASSUME NEW i \in 1..Len(queue), queue[i] = d, d # Head(queue)
        PROVE  InQueue(d)'
    <3>1. i - 1 \in 1..Len(queue') /\ queue'[i - 1] = d
      BY <1>1, <2>2
    <3> QED BY <3>1
  <2> QED BY <2>1, <2>2
<1>3. \A i, j \in 1..Len(queue') : queue'[i] = queue'[j] => i = j
  BY <1>1
<1>4. \A i \in 1..Len(queue') : queue'[i] \in Clients
  BY <1>1
<1> QED BY <1>1, <1>2, <1>3, <1>4

\* When the channel does not change and one request changes place.
LEMMA SameQueue ==
  ASSUME queue' = queue
  PROVE  \A d : InQueue(d)' <=> InQueue(d)
  BY DEF InQueue

\* AccountInv is an invariant of the device: RightReply alone is not, because
\* only RequestsAccounted tells the held responder from a waiting one.
LEMMA AccountAlways == Spec => []AccountInv
<1>1. Init => AccountInv
  <2>1. Init => TypeOK
    BY DEF Init, TypeOK, States, Idle
  <2>2. Init => RequestsAccounted /\ RightReply
    BY DEF Init, RequestsAccounted, RightReply, InQueue, Idle
  <2> QED BY <2>1, <2>2 DEF AccountInv
<1>2. AccountInv /\ TypeOK' /\ [Next]_vars => AccountInv'
  <2> SUFFICES ASSUME AccountInv, TypeOK', [Next]_vars
               PROVE  RequestsAccounted' /\ RightReply'
    BY DEF AccountInv
  <2> USE DEF AccountInv, TypeOK, RequestsAccounted, RightReply, Become,
              BecomeOverridden, Reply, Idle, dev
  <2>1. ASSUME NEW new \in Values, ReportUpdate(new)
        PROVE  RequestsAccounted' /\ RightReply'
    <3> USE <2>1, SameQueue DEF ReportUpdate
    <3>1. CASE PollUnknown(new)        BY <3>1 DEF PollUnknown
    <3>2. CASE PollIgnored(new)        BY <3>2 DEF PollIgnored
    <3>3. CASE PollConfirms(new)       BY <3>3 DEF PollConfirms
    <3>4. CASE PollContradicts(new)    BY <3>4 DEF PollContradicts
    <3>5. CASE PollAnticipates(new)    BY <3>5 DEF PollAnticipates
    <3>6. CASE PollOverrides(new)      BY <3>6 DEF PollOverrides
    <3>7. CASE PollRestores(new)       BY <3>7 DEF PollRestores
    <3>8. CASE PollOverridesAgain(new) BY <3>8 DEF PollOverridesAgain
    <3> QED BY <3>1, <3>2, <3>3, <3>4, <3>5, <3>6, <3>7, <3>8
  <2>2. ASSUME NEW c \in Clients, NEW v \in Values, TakeSetting(c, v)
        PROVE  RequestsAccounted' /\ RightReply'
    BY <2>2, YieldQueue DEF TakeSetting, Yields
  <2>3. ASSUME NEW c \in Clients, NEW v \in Values, TakeSameSetting(c, v)
        PROVE  RequestsAccounted' /\ RightReply'
    BY <2>3, YieldQueue DEF TakeSameSetting, Yields
  <2>4. ASSUME NEW c \in Clients, NEW v \in Values, StoreSetting(c, v)
        PROVE  RequestsAccounted' /\ RightReply'
    BY <2>4, YieldQueue DEF StoreSetting, Yields
  <2>5. CASE RejectWrongType
    BY <2>5, YieldQueue DEF RejectWrongType
  <2>6. CASE FinishReport
    BY <2>6, SameQueue DEF FinishReport
  <2>7. CASE ForwardSetting
    BY <2>7, SameQueue DEF ForwardSetting
  <2>8. CASE ReassertSetting
    BY <2>8, SameQueue DEF ReassertSetting
  <2>9. CASE ExpireOverride
    BY <2>9, SameQueue DEF ExpireOverride
  <2>10. ASSUME NEW c \in Clients, NEW v \in Values \cup {WrongType}, SendSetting(c, v)
         PROVE  RequestsAccounted' /\ RightReply'
    <3> USE <2>10 DEF SendSetting
    <3>1. ~InQueue(c) /\ resp # c /\ handed.resp # c
      OBVIOUS
    <3>2. /\ \A d \in Clients : InQueue(d)' <=> (InQueue(d) \/ d = c)
          /\ Len(queue') = Len(queue) + 1
          /\ \A i \in 1..Len(queue) : queue'[i] = queue[i]
          /\ queue'[Len(queue')] = c
      BY SendQueue
    <3>3. \A i, j \in 1..Len(queue') : queue'[i] = queue'[j] => i = j
      <4>1. \A i \in 1..Len(queue) : queue[i] # c
        BY <3>1 DEF InQueue
      <4>2. \A i \in 1..Len(queue') : i \in 1..Len(queue) \/ i = Len(queue')
        BY <3>2
      <4> QED BY <3>2, <4>1, <4>2
    <3>4. ask[c]' # NoValue /\ \A d \in Clients \ {c} : ask[d]' = ask[d]
      OBVIOUS
    <3>5. RequestsAccounted'
      BY <3>1, <3>2, <3>3, <3>4
    <3>6. RightReply'
      BY <3>1, <3>4
    <3> QED BY <3>5, <3>6
  <2>11. CASE DriverReply
    BY <2>11, SameQueue DEF DriverReply
  <2>12. CASE ResetState
    BY <2>12, SameQueue DEF ResetState
  <2>13. CASE Tick
    BY <2>13, SameQueue DEF Tick
  <2>14. CASE UNCHANGED vars
    BY <2>14, SameQueue DEF vars
  <2> QED
    BY <2>1, <2>2, <2>3, <2>4, <2>5, <2>6, <2>7, <2>8, <2>9, <2>10, <2>11,
       <2>12, <2>13, <2>14 DEF Next, Receive
<1> QED
  BY <1>1, <1>2, TypeCorrect, PTL DEF Spec, AccountInv

\* No responder is lost, kept after its reply or answered twice, whatever a
\* reading does to a setting on its way to the driver.
THEOREM RequestsAreAccounted == Spec => []RequestsAccounted
<1>1. AccountInv => RequestsAccounted
  BY DEF AccountInv
<1> QED
  BY AccountAlways, <1>1, PTL

\* A responder that the device or the driver holds is that of the client whose
\* value is being set (the responder of SettingRequest).
THEOREM RepliesAreRight == Spec => []RightReply
<1>1. AccountInv => RightReply
  BY DEF AccountInv
<1> QED
  BY AccountAlways, <1>1, PTL
=============================================================================
