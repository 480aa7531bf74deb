-------------------------- MODULE DeviceParameters --------------------------
(***************************************************************************)
(* What an overridable device is made with, and who uses it.               *)
(***************************************************************************)
EXTENDS Naturals, Sequences

CONSTANTS
  Values,            \* readings and settings of the device's type T
  WrongType,         \* a setting that T::try_from refuses
  NoValue,           \* no value: Option::None, or a client with no request
  Clients,           \* senders on the setting channel
  NoClient,          \* the absent SettingResponder
  ChanSize,          \* capacity of the setting channel
  Timed,             \* override_duration is Some
  OverrideDuration   \* its length, in ticks

ASSUME ValuesAssumption ==
  /\ WrongType \notin Values
  /\ NoValue \notin Values
  /\ WrongType # NoValue
ASSUME ClientsAssumption == NoClient \notin Clients
ASSUME ChanAssumption == ChanSize \in Nat \ {0}
ASSUME DurationAssumption == Timed \in BOOLEAN /\ OverrideDuration \in Nat
=============================================================================
